---- MODULE Spec2Model ----
(***************************************************************************)
(* Upload ingestion pipeline of the OCR backend (backend/src/api/ocr.rs):  *)
(* the SSE upload handler, the background orchestrator it spawns, and the  *)
(* process-wide tokio broadcast channel (backend/src/main.rs) that carries *)
(* the ProcessingEvents from the orchestrators to the response streams.    *)
(***************************************************************************)
EXTENDS Integers, Sequences, FiniteSets, TLC

(***************************************************************************)
(* Bounds of the model.                                                    *)
(***************************************************************************)
\* images parts of one multipart body
MaxFiles == 2
\* candidates returned by one successful extraction call
MaxCandidates == 2
\* UploadConfig.max_image_count (upload_config.rs:18-20 reads MAX_IMAGE_COUNT,
\* 10 when unset), scaled down so that a batch can exceed it
max_image_count == 1
\* slots of the broadcast ring buffer; main.rs:74 asks for 1000, the model
\* scales the buffer down so that a lagging receiver is reachable
ChannelCapacity == 2

Sessions == {1, 2}

\* a multipart body: its number of `images` parts, whether it also carries a
\* field of another name, and whether reading it fails at its end
OtherFields(b) == IF b.other THEN 1 ELSE 0

NoBody == [parts |-> -1, other |-> FALSE, broken |-> FALSE]
Bodies(k) == [parts : 0..k, other : BOOLEAN, broken : BOOLEAN]

(***************************************************************************)
(* ProcessingEvent (models/sse_events.rs and the variants used by ocr.rs). *)
(* sid and seq are not on the wire for every variant: they identify the    *)
(* producing orchestrator and the rank of the event among its sends, which *)
(* is what the timestamp field of every variant stands for.                *)
(***************************************************************************)
NoIndex == -1
NoEvent == [type |-> "none", sid |-> 0, idx |-> NoIndex, seq |-> 0,
            total |-> NoIndex, ok |-> NoIndex]

Ev(t, s, i, q, n, k) ==
    [type |-> t, sid |-> s, idx |-> i, seq |-> q, total |-> n, ok |-> k]

\* the terminal events of a session
IsTerminal(e) == e.type \in {"ProcessingComplete", "ProcessingError"}

NoCall == [step |-> "idle"]

\* no bytes are held for process_with_gemini
NoData == [resize |-> "none", bytes |-> "none"]

VARIABLES
    body,            \* the multipart body of each request (input)
    pc,              \* position of each background task
    files,           \* files.len() of process_upload_with_events
    skipped,         \* fields of another name read by the collect loop
    file_index,      \* loop variable of the per-file loop
    successful_files,
    ncand,           \* gemini_responses.len() of process_with_gemini
    cand,            \* candidate_idx of process_with_gemini
    valid,           \* per candidate: extract_and_validate() accepts it
    created,         \* the create_bill() calls of this process_with_gemini
    resized_data,    \* the bytes handed to process_with_gemini
    sent,            \* every event the task handed to broadcaster.send, in order
    buf,             \* broadcast channel: the values it retains, oldest first
    rx_cnt,          \* broadcast channel: number of live receivers
    stream,          \* the handler's receiver and the response stream over it
    client,          \* one call of the extraction client for one image
    validator,       \* one call of validate_file for one file
    extractor,       \* one extracted record on its way to the sink
    confidence,      \* one call of calculate_confidence_scores
    amount,          \* one amount text and what the two parsers make of it
    date,            \* one date text and what parse_vietnamese_date makes of it
    response         \* one GeminiOCRResponse under construction

\* the state of the upload pipeline and of its channel
pipeline == <<body, pc, files, skipped, file_index, successful_files,
              ncand, cand, valid, created, resized_data, sent, buf, rx_cnt,
              stream>>

\* the state of the components the pipeline calls, each followed on its own
components == <<client, validator, extractor, confidence, amount,
                date, response>>

vars == <<pipeline, components>>

(***************************************************************************)
(* tokio::sync::broadcast as used through main.rs:74 and ocr.rs: one       *)
(* channel for the whole process, held in AppState (state.rs:14).  The     *)
(* channel retains the last ChannelCapacity values sent; a receiver is a   *)
(* cursor into them, kept here as the number of values sent since it last  *)
(* received.  Every count above the capacity behaves alike (the next recv  *)
(* reports Lagged), so the count saturates one above the capacity.         *)
(***************************************************************************)
Min(a, b) == IF a < b THEN a ELSE b

LastN(q, n) == IF Len(q) <= n THEN q ELSE SubSeq(q, Len(q) - n + 1, Len(q))

\* broadcaster.send(event): with no receiver the value is handed back in
\* Err(SendError) and nothing is stored; otherwise the value is stored and
\* the oldest retained value gives way.  It never waits.
SendStores == rx_cnt > 0

BufAfterSend(e) ==
    IF SendStores THEN LastN(Append(buf, e), ChannelCapacity) ELSE buf

StreamAfterSend(r) ==
    IF SendStores /\ r.st = "open"
    THEN [r EXCEPT !.unread = Min(@ + 1, ChannelCapacity + 1)]
    ELSE r

\* the event a task sends next carries the next rank of that task
NextEvent(s, t, i, n, k) == Ev(t, s, i, Len(sent[s]) + 1, n, k)

\* `let _ = broadcaster.send(..)`: the result is discarded
Send(s, e) ==
    /\ buf' = BufAfterSend(e)
    /\ stream' = [r \in Sessions |-> StreamAfterSend(stream[r])]
    /\ sent' = [sent EXCEPT ![s] = Append(@, e)]
    /\ UNCHANGED rx_cnt

\* a dropped receiver gives up its claim on every value it has not read, and
\* a value no receiver has a claim on is released: once the last receiver
\* is gone the channel retains nothing
BufAfterDrop(receivers) == IF receivers = 0 THEN <<>> ELSE buf

\* outcome of receiver.recv() for a receiver with the given unread count
RecvOutcome(unread) ==
    IF unread = 0 THEN "empty"
    ELSE IF unread > ChannelCapacity THEN "lagged"
    ELSE "value"

(***************************************************************************)
(* Initial state: the server is up, no request has arrived.                *)
(***************************************************************************)
\* main.rs:74: broadcast::channel(..); the receiver half is dropped at once
NewStream ==
    [st |-> "none", unread |-> 0, last |-> NoEvent,
     seen |-> [p \in Sessions |-> 0]]

InitWith(B1, B2) ==
    /\ body \in [Sessions -> B1 \cup B2]
    /\ body[1] \in B1
    /\ body[2] \in B2
    /\ pc = [s \in Sessions |-> "idle"]
    /\ files = [s \in Sessions |-> 0]
    /\ skipped = [s \in Sessions |-> 0]
    /\ file_index = [s \in Sessions |-> 0]
    /\ successful_files = [s \in Sessions |-> 0]
    /\ ncand = [s \in Sessions |-> 0]
    /\ cand = [s \in Sessions |-> 0]
    /\ valid = [s \in Sessions |-> <<>>]
    /\ created = [s \in Sessions |-> <<>>]
    /\ resized_data = [s \in Sessions |-> NoData]
    /\ sent = [s \in Sessions |-> <<>>]
    /\ buf = <<>>
    /\ rx_cnt = 0
    /\ stream = [s \in Sessions |-> NewStream]

\* no component is being followed on its own
ComponentsIdle ==
    client = NoCall /\ validator = NoCall /\ extractor = NoCall
    /\ confidence = NoCall /\ amount = NoCall /\ date = NoCall
    /\ response = NoCall

\* one request
Init == InitWith(Bodies(MaxFiles), {NoBody}) /\ ComponentsIdle

\* two requests served by the same process, each with a body that carries
\* no images part
InitShared == InitWith(Bodies(0), Bodies(0)) /\ ComponentsIdle

(***************************************************************************)
(* upload_images_sse (ocr.rs:29-88)                                        *)
(***************************************************************************)
\* ocr.rs:33-54: the handler spawns the background task
Request(s) ==
    /\ body[s] # NoBody
    /\ stream[s].st = "none"
    /\ pc' = [pc EXCEPT ![s] = "collect"]
    /\ stream' = [stream EXCEPT ![s].st = "spawned"]
    /\ UNCHANGED <<components, resized_data, body, files, skipped, file_index, successful_files,
                   ncand, cand, valid, created, sent, buf, rx_cnt>>

\* ocr.rs:57: app_state.event_broadcaster.subscribe(); the new receiver
\* starts after the last value sent
Subscribe(s) ==
    /\ stream[s].st = "spawned"
    /\ stream' = [stream EXCEPT ![s].st = "open",
                                ![s].unread = 0,
                                ![s].seen = [p \in Sessions |-> Len(sent[p])]]
    /\ rx_cnt' = rx_cnt + 1
    /\ UNCHANGED <<components, resized_data, body, pc, files, skipped, file_index,
                   successful_files, ncand, cand, valid, created, sent, buf>>

\* ocr.rs:60-83: one turn of `while let Ok(event) = receiver.recv().await`:
\* a value is yielded and a terminal one breaks the loop; Err(Lagged) ends
\* the loop as well, after the cursor moved to the oldest retained value
\* ocr.rs:80 without the ProcessingError alternative
BreaksLoopOnCompleteOnly(event) ==
    event.type = "ProcessingComplete"

\* ocr.rs:80-82: the events on which the loop breaks
BreaksLoop(event) ==
    event.type \in {"ProcessingComplete", "ProcessingError"}

\* the loop of ocr.rs:60-83 over a receiver that hands out the newest
\* retained value instead of its oldest unread one
StreamAfterRecvNewest(r) ==
    LET event == buf[Len(buf)] IN
    IF RecvOutcome(r.unread) = "value"
    THEN [r EXCEPT !.unread = @ - 1,
                   !.last = event,
                   !.seen[event.sid] = event.seq,
                   !.st = IF BreaksLoop(event) THEN "ended" ELSE "open"]
    ELSE [r EXCEPT !.unread = ChannelCapacity,
                   !.st = "lagged"]

StreamAfterRecv(r) ==
    LET event == buf[Len(buf) - r.unread + 1] IN
    IF RecvOutcome(r.unread) = "value"
    THEN [r EXCEPT !.unread = @ - 1,
                   !.last = event,
                   !.seen[event.sid] = event.seq,
                   !.st = IF BreaksLoop(event) THEN "ended" ELSE "open"]
    ELSE [r EXCEPT !.unread = ChannelCapacity,
                   !.st = "lagged"]

Recv(s) ==
    /\ stream[s].st = "open"
    /\ RecvOutcome(stream[s].unread) # "empty"
    /\ stream' = [stream EXCEPT ![s] = StreamAfterRecv(@)]
    \* leaving the loop drops the stream and with it the receiver
    /\ rx_cnt' = IF stream'[s].st = "open" THEN rx_cnt ELSE rx_cnt - 1
    /\ buf' = BufAfterDrop(rx_cnt')
    /\ UNCHANGED <<components, resized_data, body, pc, files, skipped, file_index,
                   successful_files, ncand, cand, valid, created, sent>>

\* the client closes the connection: axum drops the response stream
Disconnect(s) ==
    /\ stream[s].st = "open"
    /\ stream' = [stream EXCEPT ![s] = [NewStream EXCEPT !.st = "gone"]]
    /\ rx_cnt' = rx_cnt - 1
    /\ buf' = BufAfterDrop(rx_cnt')
    /\ UNCHANGED <<components, resized_data, body, pc, files, skipped, file_index,
                   successful_files, ncand, cand, valid, created, sent>>

(***************************************************************************)
(* process_upload_with_events (ocr.rs:90-230) and the task that runs it    *)
(* (ocr.rs:38-54).                                                         *)
(***************************************************************************)
\* an orchestrator step that sends event e and moves to position p
Publish(s, e, p) ==
    /\ Send(s, e)
    /\ pc' = [pc EXCEPT ![s] = p]

\* an orchestrator step that sends nothing
Silent(s, p) ==
    /\ pc' = [pc EXCEPT ![s] = p]
    /\ UNCHANGED <<sent, buf, rx_cnt, stream>>

\* ocr.rs:132/210: the for loop moves to the next file or leaves the loop
AfterFile(s) ==
    IF file_index[s] + 1 < files[s] THEN "image_received" ELSE "all_validated"

\* ocr.rs:101-115: one `images` field is read and pushed
CollectField(s) ==
    /\ pc[s] = "collect"
    /\ files[s] < body[s].parts
    /\ files' = [files EXCEPT ![s] = @ + 1]
    /\ UNCHANGED <<components, resized_data, body, pc, skipped, file_index, successful_files,
                   ncand, cand, valid, created, sent, buf, rx_cnt, stream>>

\* ocr.rs:101-106: a field of another name is read and dropped
CollectOther(s) ==
    /\ pc[s] = "collect"
    /\ skipped[s] < OtherFields(body[s])
    /\ skipped' = [skipped EXCEPT ![s] = @ + 1]
    /\ UNCHANGED <<components, resized_data, body, pc, files, file_index, successful_files,
                   ncand, cand, valid, created, sent, buf, rx_cnt, stream>>

\* ocr.rs:101: next_field() has no further field to hand out
BodyRead(s) ==
    /\ files[s] = body[s].parts
    /\ skipped[s] = OtherFields(body[s])

\* ocr.rs:104/111: next_field() or bytes() fails, `?` returns Err
CollectError(s) ==
    /\ pc[s] = "collect"
    /\ BodyRead(s)
    /\ body[s].broken
    /\ Silent(s, "failed")
    /\ UNCHANGED <<components, resized_data, body, files, skipped, file_index, successful_files,
                   ncand, cand, valid, created>>

\* the end of the collect loop without the check of ocr.rs:117-121
CollectEmptyAccepted(s) ==
    /\ pc[s] = "collect"
    /\ BodyRead(s)
    /\ ~body[s].broken
    /\ files[s] = 0
    /\ Publish(s, NextEvent(s, "UploadStarted", NoIndex, files[s], NoIndex),
               "all_validated")
    /\ UNCHANGED <<components, resized_data, body, files, skipped, file_index, successful_files,
                   ncand, cand, valid, created>>

\* ocr.rs:117-121: the body ended and no file was collected
CollectEmpty(s) ==
    /\ pc[s] = "collect"
    /\ BodyRead(s)
    /\ ~body[s].broken
    /\ files[s] = 0
    /\ Silent(s, "failed")
    /\ UNCHANGED <<components, resized_data, body, files, skipped, file_index, successful_files,
                   ncand, cand, valid, created>>

\* UploadStarted sent from inside the collect loop of ocr.rs:101-115, as soon
\* as one file has been pushed
UploadStartedWhileCollecting(s) ==
    /\ pc[s] = "collect"
    /\ files[s] > 0
    /\ Publish(s, NextEvent(s, "UploadStarted", NoIndex, files[s], NoIndex),
               "image_received")
    /\ successful_files' = [successful_files EXCEPT ![s] = 0]
    /\ file_index' = [file_index EXCEPT ![s] = 0]
    /\ UNCHANGED <<components, resized_data, body, files, skipped, ncand, cand, valid, created>>

\* ocr.rs:123-130: UploadStarted, successful_files = 0, the loop starts
UploadStarted(s) ==
    /\ pc[s] = "collect"
    /\ BodyRead(s)
    /\ ~body[s].broken
    /\ files[s] > 0
    /\ Publish(s, NextEvent(s, "UploadStarted", NoIndex, files[s], NoIndex),
               "image_received")
    /\ successful_files' = [successful_files EXCEPT ![s] = 0]
    /\ file_index' = [file_index EXCEPT ![s] = 0]
    /\ UNCHANGED <<components, resized_data, body, files, skipped, ncand, cand, valid, created>>

\* ocr.rs:134-139
ImageReceived(s) ==
    /\ pc[s] = "image_received"
    /\ Publish(s, NextEvent(s, "ImageReceived", file_index[s], NoIndex, NoIndex),
               "validation_start")
    /\ UNCHANGED <<components, resized_data, body, files, skipped, file_index, successful_files,
                   ncand, cand, valid, created>>

\* the per-file loop without the send of ocr.rs:142-146
ImageValidationStartOmitted(s) ==
    /\ pc[s] = "validation_start"
    /\ Silent(s, "validate")
    /\ UNCHANGED <<components, resized_data, body, files, skipped, file_index, successful_files,
                   ncand, cand, valid, created>>

\* ocr.rs:142-146
ImageValidationStart(s) ==
    /\ pc[s] = "validation_start"
    /\ Publish(s, NextEvent(s, "ImageValidationStart", file_index[s],
                            NoIndex, NoIndex),
               "validate")
    /\ UNCHANGED <<components, resized_data, body, files, skipped, file_index, successful_files,
                   ncand, cand, valid, created>>

\* ocr.rs:232-258: the size check, then the format check
FileKinds == {"image", "oversized", "unknown_magic", "not_image", "undecodable"}

ValidateFile(kind) ==
    IF kind = "oversized" THEN "FileSizeExceeded"
    ELSE IF kind = "image" THEN "Ok"
    ELSE "InvalidImageFormat"

\* ocr.rs:149-155 and 200-208
ValidateOk(s) ==
    /\ pc[s] = "validate"
    /\ \E kind \in FileKinds :
          /\ ValidateFile(kind) = "Ok"
          /\ Publish(s, NextEvent(s, "ImageValidationSuccess", file_index[s],
                                  NoIndex, NoIndex),
                     "resize")
    /\ UNCHANGED <<components, resized_data, body, files, skipped, file_index, successful_files,
                   ncand, cand, valid, created>>

ValidateErr(s) ==
    /\ pc[s] = "validate"
    /\ \E kind \in FileKinds :
          /\ ValidateFile(kind) # "Ok"
          /\ Publish(s, NextEvent(s, "ImageValidationError", file_index[s],
                                  NoIndex, NoIndex),
                     AfterFile(s))
    /\ file_index' = [file_index EXCEPT ![s] = @ + 1]
    /\ UNCHANGED <<components, resized_data, body, files, skipped, successful_files,
                   ncand, cand, valid, created>>

\* ocr.rs:159-174 with image_utils.rs:76-156.  The re-encoded JPEG can be
\* shorter or longer than the input.  `image_data.len() - resized_data.len()`
\* (image_utils.rs:146, ocr.rs:161) is a usize subtraction: when the result
\* is longer it panics in a build with overflow checks (the task dies) and
\* wraps in a build without them (the task goes on).
ResizeOutcomes == {"shorter", "same", "longer", "error"}

\* ocr.rs:159-174: the re-encoded JPEG of Ok(resized), named by its length
\* against the input's, or data.to_vec() after Err
ResizedData(outcome) ==
    IF outcome = "error"
    THEN [resize |-> "error", bytes |-> "original"]
    ELSE [resize |-> "ok", bytes |-> outcome]

ResizePanics(outcome, overflow_checks) ==
    outcome = "longer" /\ overflow_checks

Resize(s) ==
    /\ pc[s] = "resize"
    /\ \E outcome \in ResizeOutcomes, overflow_checks \in BOOLEAN :
          IF ResizePanics(outcome, overflow_checks)
          THEN /\ Silent(s, "panicked")
               /\ UNCHANGED resized_data
          ELSE /\ Silent(s, "gemini_start")
               /\ resized_data' = [resized_data EXCEPT
                                       ![s] = ResizedData(outcome)]
    /\ UNCHANGED <<components, body, files, skipped, file_index, successful_files,
                   ncand, cand, valid, created>>

(***************************************************************************)
(* process_with_gemini (ocr.rs:265-401)                                    *)
(***************************************************************************)
\* ocr.rs:279-283
GeminiProcessingStart(s) ==
    /\ pc[s] = "gemini_start"
    /\ Publish(s, NextEvent(s, "GeminiProcessingStart", file_index[s],
                            NoIndex, NoIndex),
               "gemini_call")
    /\ UNCHANGED <<components, resized_data, body, files, skipped, file_index, successful_files,
                   ncand, cand, valid, created>>

\* ocr.rs:287-290: with_default_config() fails, `?` returns Err, no event;
\* the bytes are not followed beyond the client's call
GeminiInitError(s) ==
    /\ pc[s] = "gemini_call"
    /\ Silent(s, "gemini_failed")
    /\ resized_data' = [resized_data EXCEPT ![s] = NoData]
    /\ UNCHANGED <<components, body, files, skipped, file_index, successful_files,
                   ncand, cand, valid, created>>

\* ocr.rs:293-344: extract_bill_data() returns Err; every arm sends
\* GeminiProcessingError and returns Err
GeminiErrors == {"RateLimitExceeded", "AuthenticationFailed", "Timeout",
                 "ApiError", "Other"}

GeminiCallError(s) ==
    /\ pc[s] = "gemini_call"
    /\ \E err \in GeminiErrors :
          Publish(s, NextEvent(s, "GeminiProcessingError", file_index[s],
                               NoIndex, NoIndex),
                  "gemini_failed")
    /\ resized_data' = [resized_data EXCEPT ![s] = NoData]
    /\ UNCHANGED <<components, body, files, skipped, file_index, successful_files,
                   ncand, cand, valid, created>>

\* ocr.rs:293-294 and 347-351: extract_bill_data() returns the candidates;
\* each of them is one extract_and_validate() will accept or one it will not
GeminiCallOk(s) ==
    /\ pc[s] = "gemini_call"
    /\ \E n \in 1..MaxCandidates :
          /\ ncand' = [ncand EXCEPT ![s] = n]
          /\ \E v \in [1..n -> BOOLEAN] : valid' = [valid EXCEPT ![s] = v]
    /\ cand' = [cand EXCEPT ![s] = 0]
    /\ created' = [created EXCEPT ![s] = <<>>]
    /\ Publish(s, NextEvent(s, "GeminiProcessingSuccess", file_index[s],
                            NoIndex, NoIndex),
               "candidates")
    /\ resized_data' = [resized_data EXCEPT ![s] = NoData]
    /\ UNCHANGED <<components, body, files, skipped, file_index, successful_files>>

\* the candidate the loop of ocr.rs:360 is at passes extract_and_validate()
CandidateValid(s) == valid[s][cand[s] + 1]

\* ocr.rs:366-372: extract_and_validate() fails, `?` returns Err and the
\* locals of process_with_gemini go out of scope
CandidateInvalid(s) ==
    /\ pc[s] = "candidates"
    /\ cand[s] < ncand[s]
    /\ ~CandidateValid(s)
    /\ Silent(s, "gemini_failed")
    /\ ncand' = [ncand EXCEPT ![s] = 0]
    /\ cand' = [cand EXCEPT ![s] = 0]
    /\ valid' = [valid EXCEPT ![s] = <<>>]
    /\ created' = [created EXCEPT ![s] = <<>>]
    /\ UNCHANGED <<components, resized_data, body, files, skipped, file_index, successful_files>>

\* ocr.rs:379: bill_service.create_bill(bill_data) for the current candidate
CreateBill(s, accepted) ==
    created' = [created EXCEPT ![s] =
                   Append(@, [candidate |-> cand[s], saved |-> accepted])]

\* ocr.rs:379-390: create_bill() succeeds
CandidateSaved(s) ==
    /\ pc[s] = "candidates"
    /\ cand[s] < ncand[s]
    /\ CandidateValid(s)
    /\ CreateBill(s, TRUE)
    /\ Publish(s, NextEvent(s, "BillDataSaved", file_index[s], NoIndex, NoIndex),
               "candidates")
    /\ cand' = [cand EXCEPT ![s] = @ + 1]
    /\ UNCHANGED <<components, resized_data, body, files, skipped, file_index, successful_files,
                   ncand, valid>>

\* ocr.rs:391-397 with the error of create_bill() returned to the caller
\* instead of logged
CandidateNotSavedPropagated(s) ==
    /\ pc[s] = "candidates"
    /\ cand[s] < ncand[s]
    /\ CandidateValid(s)
    /\ CreateBill(s, FALSE)
    /\ Silent(s, "gemini_failed")
    /\ UNCHANGED <<components, resized_data, body, files, skipped, file_index, successful_files,
                   ncand, cand, valid>>

\* ocr.rs:391-397: create_bill() fails, the error is logged
CandidateNotSaved(s) ==
    /\ pc[s] = "candidates"
    /\ cand[s] < ncand[s]
    /\ CandidateValid(s)
    /\ CreateBill(s, FALSE)
    /\ Silent(s, "candidates")
    /\ cand' = [cand EXCEPT ![s] = @ + 1]
    /\ UNCHANGED <<components, resized_data, body, files, skipped, file_index, successful_files,
                   ncand, valid>>

\* ocr.rs:400 and 186-188: process_with_gemini returns Ok(()), its locals
\* go out of scope
GeminiOk(s) ==
    /\ pc[s] = "candidates"
    /\ cand[s] = ncand[s]
    /\ Silent(s, AfterFile(s))
    /\ successful_files' = [successful_files EXCEPT ![s] = @ + 1]
    /\ file_index' = [file_index EXCEPT ![s] = @ + 1]
    /\ ncand' = [ncand EXCEPT ![s] = 0]
    /\ cand' = [cand EXCEPT ![s] = 0]
    /\ valid' = [valid EXCEPT ![s] = <<>>]
    /\ created' = [created EXCEPT ![s] = <<>>]
    /\ UNCHANGED <<components, resized_data, body, files, skipped>>

\* ocr.rs:189-197 without the increment of ocr.rs:196
GeminiFailedNotCounted(s) ==
    /\ pc[s] = "gemini_failed"
    /\ Publish(s, NextEvent(s, "GeminiProcessingError", file_index[s],
                            NoIndex, NoIndex),
               AfterFile(s))
    /\ file_index' = [file_index EXCEPT ![s] = @ + 1]
    /\ UNCHANGED <<components, resized_data, body, files, skipped, successful_files,
                   ncand, cand, valid, created>>

\* ocr.rs:189-197: process_with_gemini returned Err
GeminiFailed(s) ==
    /\ pc[s] = "gemini_failed"
    /\ Publish(s, NextEvent(s, "GeminiProcessingError", file_index[s],
                            NoIndex, NoIndex),
               AfterFile(s))
    /\ successful_files' = [successful_files EXCEPT ![s] = @ + 1]
    /\ file_index' = [file_index EXCEPT ![s] = @ + 1]
    /\ UNCHANGED <<components, resized_data, body, files, skipped, ncand, cand, valid, created>>

\* ocr.rs:213-218
AllImagesValidated(s) ==
    /\ pc[s] = "all_validated"
    /\ Publish(s, NextEvent(s, "AllImagesValidated", NoIndex, files[s],
                            successful_files[s]),
               "complete")
    /\ UNCHANGED <<components, resized_data, body, files, skipped, file_index, successful_files,
                   ncand, cand, valid, created>>

\* ocr.rs:221-229
ProcessingComplete(s) ==
    /\ pc[s] = "complete"
    /\ Publish(s, NextEvent(s, "ProcessingComplete", NoIndex, files[s],
                            successful_files[s]),
               "done")
    /\ UNCHANGED <<components, resized_data, body, files, skipped, file_index, successful_files,
                   ncand, cand, valid, created>>

\* ocr.rs:39-53: process_upload_with_events returned Err
ProcessingError(s) ==
    /\ pc[s] = "failed"
    /\ Publish(s, NextEvent(s, "ProcessingError", NoIndex, NoIndex, NoIndex),
               "done")
    /\ UNCHANGED <<components, resized_data, body, files, skipped, file_index, successful_files,
                   ncand, cand, valid, created>>

Next ==
    \E s \in Sessions :
        \/ Request(s)
        \/ Subscribe(s)
        \/ Recv(s)
        \/ Disconnect(s)
        \/ CollectField(s)
        \/ CollectOther(s)
        \/ CollectError(s)
        \/ CollectEmpty(s)
        \/ UploadStarted(s)
        \/ ImageReceived(s)
        \/ ImageValidationStart(s)
        \/ ValidateOk(s)
        \/ ValidateErr(s)
        \/ Resize(s)
        \/ GeminiProcessingStart(s)
        \/ GeminiInitError(s)
        \/ GeminiCallError(s)
        \/ GeminiCallOk(s)
        \/ CandidateInvalid(s)
        \/ CandidateSaved(s)
        \/ CandidateNotSaved(s)
        \/ GeminiOk(s)
        \/ GeminiFailed(s)
        \/ AllImagesValidated(s)
        \/ ProcessingComplete(s)
        \/ ProcessingError(s)

Spec == Init /\ [][Next]_vars

\* the steps two requests without images parts can take
NextShared ==
    \E s \in Sessions :
        \/ Request(s)
        \/ Subscribe(s)
        \/ Recv(s)
        \/ Disconnect(s)
        \/ CollectOther(s)
        \/ CollectError(s)
        \/ CollectEmpty(s)
        \/ ProcessingError(s)

SpecShared == InitShared /\ [][NextShared]_vars

\* the steps of one request whose handler has spawned the background task
\* and has not yet subscribed: the task alone, which reads nothing of the
\* channel (the result of every send is discarded)
NextPipeline ==
    \E s \in Sessions :
        \/ Request(s)
        \/ CollectField(s)
        \/ CollectOther(s)
        \/ CollectError(s)
        \/ CollectEmpty(s)
        \/ UploadStarted(s)
        \/ ImageReceived(s)
        \/ ImageValidationStart(s)
        \/ ValidateOk(s)
        \/ ValidateErr(s)
        \/ Resize(s)
        \/ GeminiProcessingStart(s)
        \/ GeminiInitError(s)
        \/ GeminiCallError(s)
        \/ GeminiCallOk(s)
        \/ CandidateInvalid(s)
        \/ CandidateSaved(s)
        \/ CandidateNotSaved(s)
        \/ GeminiOk(s)
        \/ GeminiFailed(s)
        \/ AllImagesValidated(s)
        \/ ProcessingComplete(s)
        \/ ProcessingError(s)

SpecPipeline == Init /\ [][NextPipeline]_vars

(***************************************************************************)
(* The extraction client: one call for one image.  A single HTTP attempt   *)
(* is call_gemini_api (services/gemini_service.rs:182-333); the errors are *)
(* the variants of models/ocr_error.rs.  The per-image entry point that    *)
(* ocr.rs:293 and gemini_service.rs:904 call is not part of the sources;   *)
(* its retry loop follows section 4.3 of the specification.                *)
(***************************************************************************)
\* Option<u64>::None
NoSeconds == -1

\* the delay a 429 response declares when it declares one
DeclaredSeconds == 7

\* gemini_service.rs:310: retry_after.unwrap_or(60)
DefaultRetryAfterSeconds == 60

\* where a response declares its retry delay: nowhere, in the Retry-After
\* header, or in its JSON body as "retryAfter": "7s", as "retryAfter": 7 or
\* as error.details[].retryInfo.retryDelay: "7s"
Declarations == {"nothing", "header", "retryAfter_string",
                 "retryAfter_number", "retryInfo"}

Resp(t, st, j, d) == [transport |-> t, status |-> st, json |-> j, declares |-> d]

\* the answers of the server to one attempt
Responses ==
    {Resp("timeout", 0, FALSE, "nothing"), Resp("connect", 0, FALSE, "nothing"),
     Resp("ok", 200, TRUE, "nothing"), Resp("ok", 200, FALSE, "nothing")}
    \cup {Resp("ok", st, TRUE, "nothing") : st \in {400, 401, 403, 404, 418,
                                                   500, 503}}
    \cup {Resp("ok", 429, TRUE, d) : d \in Declarations}

\* gemini_service.rs:1158-1200: only the JSON body is looked at
extract_retry_after_seconds(r) ==
    IF r.json /\ r.declares \in {"retryAfter_string", "retryAfter_number",
                                 "retryInfo"}
    THEN DeclaredSeconds
    ELSE NoSeconds

OcrError(k, st, ra) ==
    [ok |-> FALSE, kind |-> k, status_code |-> st, retry_after_seconds |-> ra]

\* gemini_service.rs:305-313
RateLimitError(r) ==
    OcrError("RateLimit", 0,
             IF extract_retry_after_seconds(r) # NoSeconds
             THEN extract_retry_after_seconds(r)
             ELSE DefaultRetryAfterSeconds)

\* gemini_service.rs:290-298 with 403 classified with the server errors
ForbiddenAsUnavailable(r) == OcrError("ServiceUnavailable", 0, NoSeconds)

\* gemini_service.rs:290-298
ForbiddenError(r) == OcrError("Api", 403, NoSeconds)

\* gemini_service.rs:182-333: one attempt, its answer classified
call_gemini_api(r) ==
    IF r.transport = "timeout" THEN OcrError("Timeout", 0, NoSeconds)
    ELSE IF r.transport # "ok" THEN OcrError("Network", 0, NoSeconds)
    ELSE IF r.status \in 200..299
         THEN IF r.json THEN [ok |-> TRUE]
              ELSE OcrError("Parse", 0, NoSeconds)
    ELSE IF r.status = 400 THEN OcrError("Validation", 0, NoSeconds)
    ELSE IF r.status = 401 THEN OcrError("Configuration", 0, NoSeconds)
    ELSE IF r.status = 403 THEN ForbiddenError(r)
    ELSE IF r.status = 404 THEN OcrError("Configuration", 0, NoSeconds)
    ELSE IF r.status = 429 THEN RateLimitError(r)
    ELSE IF r.status \in 500..599
         THEN OcrError("ServiceUnavailable", 0, NoSeconds)
    ELSE OcrError("Api", r.status, NoSeconds)

\* ocr_error.rs:262-268
retry_after_seconds(e) ==
    IF e.kind \in {"Api", "RateLimit"} THEN e.retry_after_seconds ELSE NoSeconds

\* section 4.3: up to N attempts (default 3)
max_attempts == 3

\* section 4.3: the ceiling of the back-off delay (default 30 s)
max_delay_seconds == 30

\* the base delays the client may be configured with
BaseDelays == {1, 16}

\* a policy that retries whatever failed
RetryableAny(e) == ~e.ok

\* a policy that gives up on a rate limit
RetryableExceptRateLimit(e) == e.kind \in {"ServiceUnavailable", "Timeout"}

\* section 4.3: RateLimitExceeded, ServiceUnavailable and Timeout only
Retryable(e) == e.kind \in {"RateLimit", "ServiceUnavailable", "Timeout"}

RECURSIVE Pow2(_)
Pow2(n) == IF n = 0 THEN 1 ELSE 2 * Pow2(n - 1)

\* section 4.3: the declared retry-after when the failure carries one,
\* otherwise the base delay doubled per attempt and capped
RetryDelay(e, attempt, base) ==
    IF retry_after_seconds(e) # NoSeconds THEN retry_after_seconds(e)
    ELSE Min(base * Pow2(attempt - 1), max_delay_seconds)

\* what the server will answer to the first, second, ... attempt
Scripts == [1..(max_attempts + 1) -> Responses]

NewCall(base, script) ==
    [step |-> "call", base |-> base, script |-> script, attempts |-> 0,
     delays |-> <<>>, errors |-> <<>>, result |-> [ok |-> FALSE, kind |-> "none"]]

\* one attempt of the running call: the call returns the payload of a
\* success; after a failure it sleeps and goes round again when the policy
\* allows it, and returns the failure otherwise
ClientAttempt ==
    /\ client.step = "call"
    /\ LET n == client.attempts + 1
           out == call_gemini_api(client.script[n])
       IN  IF out.ok
           THEN client' = [client EXCEPT !.attempts = n, !.step = "done",
                               !.result = [ok |-> TRUE, attempt |-> n]]
           ELSE IF Retryable(out) /\ n < max_attempts
           THEN client' = [client EXCEPT
                               !.attempts = n,
                               !.errors = Append(@, out),
                               !.delays = Append(@, RetryDelay(out, n,
                                                               client.base))]
           ELSE client' = [client EXCEPT !.attempts = n, !.step = "done",
                               !.errors = Append(@, out),
                               !.result = out]
    /\ UNCHANGED <<pipeline, validator, extractor, confidence, amount, date,
                   response>>

InitClient ==
    /\ InitWith({NoBody}, {NoBody})
    /\ response = NoCall
    /\ date = NoCall
    /\ amount = NoCall
    /\ confidence = NoCall
    /\ validator = NoCall
    /\ extractor = NoCall
    /\ client \in {NewCall(b, sc) : b \in BaseDelays, sc \in Scripts}

NextClient == ClientAttempt

SpecClient == InitClient /\ [][NextClient]_vars

(***************************************************************************)
(* The validator: validate_file (ocr.rs:232-258) over one file, with       *)
(* services/image_validation.rs, and the error code the pipeline puts in   *)
(* the ImageValidationError event (ocr.rs:200-208 and 403-420).            *)
(***************************************************************************)
\* UploadConfig.max_file_size_bytes (2097152 by default), scaled down
max_file_size_bytes == 2

\* the longest file followed
MaxFileSize == 5

\* what infer::get finds at the head of the data
Magics == {"png", "jpeg", "pdf", "none"}

mime_type(magic) ==
    CASE magic = "png" -> "image/png"
      [] magic = "jpeg" -> "image/jpeg"
      [] magic = "pdf" -> "application/pdf"
      [] OTHER -> "none"

IsImageMime(mime) == mime \in {"image/png", "image/jpeg"}

\* a file: its length, its magic bytes, and whether
\* image::load_from_memory can decode it
Files == [len : 0..MaxFileSize, magic : Magics, decodes : BOOLEAN]

UploadOk == [error |-> "none"]

\* image_validation.rs:39-52 with the limit counted as exceeded
validate_file_size_inclusive(size, limit) ==
    IF size >= limit
    THEN [error |-> "FileSizeExceeded", size |-> size, limit |-> limit]
    ELSE UploadOk

\* image_validation.rs:39-52
validate_file_size(size, limit) ==
    IF size > limit
    THEN [error |-> "FileSizeExceeded", size |-> size, limit |-> limit]
    ELSE UploadOk

InvalidImageFormat(text) == [error |-> "InvalidImageFormat", format |-> text]

\* image_validation.rs:7-18: the magic bytes
SniffMagic(data) ==
    IF data.magic = "none" THEN InvalidImageFormat("Unknown format")
    ELSE IF ~IsImageMime(mime_type(data.magic))
         THEN InvalidImageFormat("Not an image")
    ELSE UploadOk

\* image_validation.rs:20-36: the full decode
DecodeImage(data) ==
    IF data.decodes THEN UploadOk ELSE InvalidImageFormat("Corrupted image")

\* ocr.rs:403-420
map_error_to_code(e) ==
    CASE e.error = "FileSizeExceeded"
            -> [code |-> "FileSizeExceeded", actual |-> e.size, limit |-> e.limit]
      [] e.error = "InvalidImageFormat"
            -> [code |-> "UnsupportedFormat", detected |-> e.format]
      [] e.error = "ImageCountExceeded"
            -> [code |-> "CountLimitExceeded", count |-> e.count, limit |-> e.limit]
      [] e.error = "MultipartError"
            -> [code |-> "CorruptedFile"]

\* ocr.rs:200-208: the ImageValidationError event of a rejected file
Rejected(e) == [status |-> "Invalid", error_code |-> map_error_to_code(e)]

\* ocr.rs:244-257: the ImageFileInfo of an accepted file
Accepted(data) ==
    [status |-> "Valid", content_type |-> mime_type(data.magic),
     size_bytes |-> data.len]

NewCheck(data) ==
    [step |-> "size", data |-> data, checks |-> <<>>,
     result |-> [status |-> "none"]]

\* one step of validate_file: the check ran, and the file is rejected with
\* the check's error or goes on to the next step
CheckStep(check, outcome, next) ==
    IF outcome.error # "none"
    THEN validator' = [validator EXCEPT !.step = "done",
                           !.checks = Append(@, check),
                           !.result = Rejected(outcome)]
    ELSE IF next = "done"
    THEN validator' = [validator EXCEPT !.step = "done",
                           !.checks = Append(@, check),
                           !.result = Accepted(validator.data)]
    ELSE validator' = [validator EXCEPT !.step = next,
                           !.checks = Append(@, check)]

\* ocr.rs:240
ValidateFileSize ==
    /\ validator.step = "size"
    /\ CheckStep("size", validate_file_size(validator.data.len,
                                            max_file_size_bytes), "sniff")
    /\ UNCHANGED <<pipeline, client, extractor, confidence, amount, date,
                   response>>

\* ocr.rs:241 into image_validation.rs:7-18
ValidateMagic ==
    /\ validator.step = "sniff"
    /\ CheckStep("sniff", SniffMagic(validator.data), "decode")
    /\ UNCHANGED <<pipeline, client, extractor, confidence, amount, date,
                   response>>

\* image_validation.rs:20-36
ValidateDecode ==
    /\ validator.step = "decode"
    /\ CheckStep("decode", DecodeImage(validator.data), "done")
    /\ UNCHANGED <<pipeline, client, extractor, confidence, amount, date,
                   response>>

InitValidator ==
    /\ InitWith({NoBody}, {NoBody})
    /\ response = NoCall
    /\ date = NoCall
    /\ amount = NoCall
    /\ confidence = NoCall
    /\ client = NoCall
    /\ extractor = NoCall
    /\ validator \in {NewCheck(d) : d \in Files}

NextValidator == ValidateFileSize \/ ValidateMagic \/ ValidateDecode

SpecValidator == InitValidator /\ [][NextValidator]_vars

(***************************************************************************)
(* Post-extraction validation of one record: validate_extracted_data of    *)
(* the response parser (gemini_service.rs:748-822, called at 437-449),     *)
(* then extract_and_validate of the pipeline (ocr.rs:360-372 with          *)
(* bill_extractor.rs:194-244) and the sink (ocr.rs:379-398);               *)
(* BillData::validate_financial_data is models/bill_data.rs:111-156.       *)
(* A rust_decimal::Decimal is a mantissa m and a scale e: m / 10^e.        *)
(***************************************************************************)
Dec(m, e) == [m |-> m, e |-> e]

RECURSIVE Pow10(_)
Pow10(n) == IF n = 0 THEN 1 ELSE 10 * Pow10(n - 1)

Max(a, b) == IF a > b THEN a ELSE b

\* the mantissa of d at the scale e >= d.e
MantissaAt(d, e) == d.m * Pow10(e - d.e)

DecMul(a, b) == Dec(a.m * b.m, a.e + b.e)

\* x / Decimal::from(100)
DecDivHundred(a) == Dec(a.m, a.e + 2)

DecSub(a, b) ==
    LET e == Max(a.e, b.e) IN Dec(MantissaAt(a, e) - MantissaAt(b, e), e)

DecAbs(a) == Dec(IF a.m < 0 THEN 0 - a.m ELSE a.m, a.e)

DecGt(a, b) ==
    LET e == Max(a.e, b.e) IN MantissaAt(a, e) > MantissaAt(b, e)

DecLt(a, b) == DecGt(b, a)

DecZero == Dec(0, 0)

DecHundred == Dec(100, 0)

\* Decimal::try_from(0.01) (gemini_service.rs:789) and
\* Decimal::from_str("0.01") (bill_data.rs:148)
tolerance == Dec(1, 2)

\* Option<T>
Some(x) == [some |-> TRUE, v |-> x]

NoDecimal == [some |-> FALSE, v |-> DecZero]

NoDate == [some |-> FALSE, v |-> 0]

\* chrono::Duration::days(10 * 365)
ten_years_days == 3650

\* the issue date in days after today: tomorrow, today, the last day the
\* ten-year window holds, and the day before it
IssueDates ==
    {NoDate, Some(1), Some(0), Some(0 - ten_years_days),
     Some(0 - ten_years_days - 1)}

TotalAmounts ==
    {NoDecimal, Some(Dec(100000, 2)), Some(Dec(-100000, 2)), Some(Dec(15, 2))}

TaxRates == {NoDecimal, Some(Dec(10, 0)), Some(Dec(150, 0)), Some(Dec(-5, 0))}

TaxAmounts ==
    {NoDecimal, Some(Dec(10000, 2)), Some(Dec(10001, 2)), Some(Dec(10002, 2)),
     Some(Dec(200, 0)), Some(Dec(-10000, 2)), Some(Dec(2, 2)), Some(Dec(3, 2))}

Quantities == {NoDecimal, Some(Dec(-1, 0))}

TaxCodes == {"none", "empty", "ten_digits", "malformed"}

\* the fields of an extracted record that the validations read
\* (issue_date/issued_date, tax_rate/vat_rate, tax_amount/vat_amount)
Bills ==
    [issue_date : IssueDates, total_amount : TotalAmounts,
     tax_rate : TaxRates, tax_amount : TaxAmounts, tax_code : TaxCodes,
     quantity : Quantities, unit_price : Quantities]

IsNegative(x) == x.some /\ DecLt(x.v, DecZero)

RateOutOfRange(x) ==
    x.some /\ (DecLt(x.v, DecZero) \/ DecGt(x.v, DecHundred))

\* gemini_service.rs:785-797 with the tolerance counted as exceeded when met
TaxInconsistentInclusive(b) ==
    /\ b.total_amount.some /\ b.tax_rate.some /\ b.tax_amount.some
    /\ ~DecLt(DecAbs(DecSub(DecDivHundred(DecMul(b.total_amount.v,
                                                 b.tax_rate.v)),
                            b.tax_amount.v)),
              tolerance)

\* gemini_service.rs:785-797 and bill_data.rs:144-156
TaxInconsistent(b) ==
    /\ b.total_amount.some /\ b.tax_rate.some /\ b.tax_amount.some
    /\ DecGt(DecAbs(DecSub(DecDivHundred(DecMul(b.total_amount.v,
                                                b.tax_rate.v)),
                           b.tax_amount.v)),
             tolerance)

\* gemini_service.rs:748-822: every finding is collected
validate_extracted_data(b) ==
    {f \in {"future_date", "older_than_10_years", "negative_total",
            "negative_tax", "tax_rate_range", "tax_inconsistency",
            "tax_code_format"} :
        \/ f = "future_date" /\ b.issue_date.some /\ b.issue_date.v > 0
        \/ /\ f = "older_than_10_years"
           /\ b.issue_date.some
           /\ b.issue_date.v < 0 - ten_years_days
        \/ f = "negative_total" /\ IsNegative(b.total_amount)
        \/ f = "negative_tax" /\ IsNegative(b.tax_amount)
        \/ f = "tax_rate_range" /\ RateOutOfRange(b.tax_rate)
        \/ f = "tax_inconsistency" /\ TaxInconsistent(b)
        \/ f = "tax_code_format" /\ b.tax_code = "malformed"}

\* bill_data.rs:111-156: the first finding is returned
validate_financial_data(b) ==
    IF RateOutOfRange(b.tax_rate) THEN "vat_rate_range"
    ELSE IF IsNegative(b.quantity) THEN "negative_quantity"
    ELSE IF IsNegative(b.unit_price) THEN "negative_unit_price"
    ELSE IF IsNegative(b.total_amount) THEN "negative_total"
    ELSE IF IsNegative(b.tax_amount) THEN "negative_vat"
    ELSE IF TaxInconsistent(b) THEN "vat_inconsistency"
    ELSE "ok"

\* bill_extractor.rs:194-234: the first finding is returned as an error
extractor_validate_extracted_data(b) ==
    IF b.issue_date.some /\ b.issue_date.v > 0 THEN "future_date"
    ELSE IF IsNegative(b.total_amount) THEN "negative_total"
    ELSE IF IsNegative(b.tax_amount) THEN "negative_vat"
    ELSE IF RateOutOfRange(b.tax_rate) THEN "vat_rate_range"
    ELSE "ok"

NewRecord(b) ==
    [step |-> "parse", bill |-> b, warnings |-> {}, returned |-> FALSE,
     financial |-> "none", persisted |-> FALSE]

\* gemini_service.rs:431-449: the findings become warnings of the response,
\* which is returned with the record
ParseGeminiResponse ==
    /\ extractor.step = "parse"
    /\ extractor' = [extractor EXCEPT
                        !.step = "extract",
                        !.warnings = validate_extracted_data(extractor.bill),
                        !.financial = validate_financial_data(extractor.bill),
                        !.returned = TRUE]
    /\ UNCHANGED <<pipeline, client, validator, confidence, amount, date,
                   response>>

\* ocr.rs:366-372 with bill_extractor.rs:236-244: a finding is an Err and
\* `?` returns it from process_with_gemini
ExtractAndValidate ==
    /\ extractor.step = "extract"
    /\ extractor' = [extractor EXCEPT
                        !.step =
                            IF extractor_validate_extracted_data(extractor.bill)
                                   = "ok"
                            THEN "persist" ELSE "failed"]
    /\ UNCHANGED <<pipeline, client, validator, confidence, amount, date,
                   response>>

\* ocr.rs:379-398: create_bill
PersistBill ==
    /\ extractor.step = "persist"
    /\ extractor' = [extractor EXCEPT !.step = "done", !.persisted = TRUE]
    /\ UNCHANGED <<pipeline, client, validator, confidence, amount, date,
                   response>>

InitExtractor ==
    /\ InitWith({NoBody}, {NoBody})
    /\ response = NoCall
    /\ date = NoCall
    /\ amount = NoCall
    /\ confidence = NoCall
    /\ client = NoCall
    /\ validator = NoCall
    /\ extractor \in {NewRecord(b) : b \in Bills}

NextExtractor == ParseGeminiResponse \/ ExtractAndValidate \/ PersistBill

SpecExtractor == InitExtractor /\ [][NextExtractor]_vars

(***************************************************************************)
(* Confidence scoring: calculate_confidence_scores and                     *)
(* calculate_field_confidence (gemini_service.rs:606-733) with             *)
(* ConfidenceScores::add_field_score (gemini_response.rs:289-291).         *)
(* A score is counted in hundredths; the overall score is kept as the      *)
(* quotient weighted_score / total_weight the code computes in f32.        *)
(***************************************************************************)
CRITICAL_FIELDS == <<"invoice_no", "company_name", "total_amount">>

IMPORTANT_FIELDS == <<"issue_date", "tax_code", "tax_amount">>

OPTIONAL_FIELDS ==
    <<"form_no", "tax_rate", "notes", "buyer_name", "company_address">>

ScoredFields == CRITICAL_FIELDS \o IMPORTANT_FIELDS \o OPTIONAL_FIELDS

\* gemini_service.rs:619-641 with every field weighing the same
FieldWeightFlat(class) == 1

\* gemini_service.rs:619-641: the weight of the fields of a loop
FieldWeight(class) ==
    CASE class = "critical" -> 3
      [] class = "important" -> 2
      [] class = "optional" -> 1

\* how a field reaches calculate_field_confidence: not in the JSON, in the
\* JSON but not extracted, extracted, extracted in the expected format
FieldInputs(f) ==
    {"absent", "unextracted", "extracted"}
    \cup (IF f \in {"invoice_no", "tax_code", "tax_rate"}
          THEN {"well_formed"} ELSE {})

\* the JSON and the extracted record, by what they hold for each field
CriticalInputs ==
    [invoice_no : FieldInputs("invoice_no"),
     company_name : FieldInputs("company_name"),
     total_amount : FieldInputs("total_amount")]

ImportantInputs ==
    [issue_date : FieldInputs("issue_date"),
     tax_code : FieldInputs("tax_code"),
     tax_amount : FieldInputs("tax_amount")]

OptionalInputs ==
    [form_no : FieldInputs("form_no"),
     tax_rate : FieldInputs("tax_rate"),
     notes : FieldInputs("notes"),
     buyer_name : FieldInputs("buyer_name"),
     company_address : FieldInputs("company_address")]

\* gemini_service.rs:664-733, in hundredths
calculate_field_confidence(f, in) ==
    IF in = "absent" THEN 0
    ELSE IF in = "unextracted" THEN 30
    ELSE IF f \in {"issue_date"} THEN 95
    ELSE IF f \in {"total_amount", "tax_amount"} THEN 90
    ELSE IF f = "invoice_no" /\ in = "well_formed" THEN 90
    ELSE IF f \in {"tax_code", "tax_rate"} /\ in = "well_formed" THEN 95
    ELSE 80

\* f32::clamp
Clamp(x, lo, hi) == IF x < lo THEN lo ELSE IF x > hi THEN hi ELSE x

\* gemini_response.rs:289-291
add_field_score(scores, f, score) ==
    [g \in (DOMAIN scores) \cup {f} |->
        IF g = f THEN Clamp(score, 0, 100) ELSE scores[g]]

\* ConfidenceScores::default() with the two accumulators of
\* gemini_service.rs:615-616
NewScores ==
    [step |-> "critical", field_scores |-> <<>>, total_weight |-> 0,
     weighted_score |-> 0, overall |-> [num |-> 0, den |-> 1]]

\* one of the loops of gemini_service.rs:619-641 over the first i of its
\* fields
RECURSIVE ScoreLoop(_, _, _, _, _)
ScoreLoop(acc, fields, in, class, i) ==
    IF i = 0 THEN acc
    ELSE LET before == ScoreLoop(acc, fields, in, class, i - 1)
             score == calculate_field_confidence(fields[i], in[fields[i]])
         IN  [before EXCEPT
                 !.field_scores = add_field_score(@, fields[i], score),
                 !.total_weight = @ + FieldWeight(class),
                 !.weighted_score = @ + score * FieldWeight(class)]

\* gemini_service.rs:643-648: (weighted_score / total_weight).clamp(0.0, 1.0)
\* as a fraction in hundredths, 0 when nothing was weighed
Overall(acc) ==
    IF acc.total_weight > 0
    THEN [num |-> Clamp(acc.weighted_score, 0, 100 * acc.total_weight),
          den |-> acc.total_weight]
    ELSE [num |-> 0, den |-> 1]

\* gemini_service.rs:619-625
ScoreCritical ==
    /\ confidence.step = "critical"
    /\ \E in \in CriticalInputs :
          confidence' = [ScoreLoop(confidence, CRITICAL_FIELDS, in, "critical",
                                   Len(CRITICAL_FIELDS))
                            EXCEPT !.step = "important"]
    /\ UNCHANGED <<pipeline, client, validator, extractor, amount, date,
                   response>>

\* gemini_service.rs:627-633
ScoreImportant ==
    /\ confidence.step = "important"
    /\ \E in \in ImportantInputs :
          confidence' = [ScoreLoop(confidence, IMPORTANT_FIELDS, in,
                                   "important", Len(IMPORTANT_FIELDS))
                            EXCEPT !.step = "optional"]
    /\ UNCHANGED <<pipeline, client, validator, extractor, amount, date,
                   response>>

\* gemini_service.rs:635-650: the last loop and the overall score
ScoreOptional ==
    /\ confidence.step = "optional"
    /\ \E in \in OptionalInputs :
          LET acc == ScoreLoop(confidence, OPTIONAL_FIELDS, in, "optional",
                               Len(OPTIONAL_FIELDS))
          IN  confidence' = [acc EXCEPT !.step = "done",
                                        !.overall = Overall(acc)]
    /\ UNCHANGED <<pipeline, client, validator, extractor, amount, date,
                   response>>

InitConfidence ==
    /\ InitWith({NoBody}, {NoBody})
    /\ response = NoCall
    /\ date = NoCall
    /\ amount = NoCall
    /\ client = NoCall
    /\ validator = NoCall
    /\ extractor = NoCall
    /\ confidence = NewScores

NextConfidence == ScoreCritical \/ ScoreImportant \/ ScoreOptional

SpecConfidence == InitConfidence /\ [][NextConfidence]_vars

(***************************************************************************)
(* Amount texts: parse_vietnamese_amount (bill_extractor.rs:128-162) and   *)
(* the string branch of extract_decimal_field (gemini_service.rs:559-590). *)
(* A text is a sequence of characters.                                     *)
(***************************************************************************)
\* the longest text drawn from the alphabet
MaxText == 5

Digits == {"0", "1", "2", "3", "4", "5", "6", "7", "8", "9"}

DigitValue(c) ==
    CASE c = "0" -> 0 [] c = "1" -> 1 [] c = "2" -> 2 [] c = "3" -> 3
      [] c = "4" -> 4 [] c = "5" -> 5 [] c = "6" -> 6 [] c = "7" -> 7
      [] c = "8" -> 8 [] c = "9" -> 9

\* str::contains and str::matches(..).count() for one character
CountChar(t, c) == Len(SelectSeq(t, LAMBDA x : x = c))

Contains(t, c) == CountChar(t, c) > 0

\* str::replace(c, "")
RemoveChar(t, c) == SelectSeq(t, LAMBDA x : x # c)

\* str::replace(c, d) for one character
ReplaceChar(t, c, d) == [i \in 1..Len(t) |-> IF t[i] = c THEN d ELSE t[i]]

\* str::replace(sub, "") for a text of several characters
RECURSIVE RemoveSub(_, _)
RemoveSub(t, sub) ==
    IF Len(t) < Len(sub) THEN t
    ELSE IF SubSeq(t, 1, Len(sub)) = sub
         THEN RemoveSub(SubSeq(t, Len(sub) + 1, Len(t)), sub)
    ELSE <<t[1]>> \o RemoveSub(Tail(t), sub)

\* str::split(c).collect()
RECURSIVE Split(_, _)
Split(t, c) ==
    IF ~Contains(t, c) THEN <<t>>
    ELSE LET i == CHOOSE k \in 1..Len(t) :
                      t[k] = c /\ \A j \in 1..(k - 1) : t[j] # c
         IN  <<SubSeq(t, 1, i - 1)>> \o Split(SubSeq(t, i + 1, Len(t)), c)

RECURSIVE DigitsValue(_)
DigitsValue(t) ==
    IF t = <<>> THEN 0
    ELSE 10 * DigitsValue(SubSeq(t, 1, Len(t) - 1)) + DigitValue(t[Len(t)])

NoAmount == [ok |-> FALSE, m |-> 0, e |-> 0]

\* Decimal::from_str on a text that begins and ends with a digit: digits
\* with at most one point between them
DecimalFromStr(t) ==
    IF /\ t # <<>>
       /\ \A i \in 1..Len(t) : t[i] \in Digits \cup {"."}
       /\ CountChar(t, ".") <= 1
       /\ t[1] \in Digits /\ t[Len(t)] \in Digits
    THEN [ok |-> TRUE, m |-> DigitsValue(RemoveChar(t, ".")),
          e |-> IF Contains(t, ".")
                THEN Len(Split(t, ".")[2]) ELSE 0]
    ELSE NoAmount

VND == <<"V", "N", "D">>

\* bill_extractor.rs:129-134: the currency code goes, then the spaces
Cleaned(t) == RemoveChar(RemoveSub(t, VND), " ")

\* gemini_service.rs:559-565: the spaces go, then the currency code
CleanedField(t) == RemoveSub(RemoveChar(t, " "), VND)

\* bill_extractor.rs:139-154: the text handed to Decimal::from_str
NormalizedAmount(t) ==
    LET cleaned == Cleaned(t)
        parts == Split(cleaned, ",")
    IN  IF \/ CountChar(cleaned, ".") > 1
           \/ (Contains(cleaned, ".") /\ Contains(cleaned, ","))
        THEN IF Len(parts) = 2
             THEN RemoveChar(parts[1], ".") \o <<".">> \o parts[2]
             ELSE RemoveChar(cleaned, ".")
        ELSE IF Contains(cleaned, ",") /\ ~Contains(cleaned, ".")
        THEN ReplaceChar(cleaned, ",", ".")
        ELSE cleaned

\* bill_extractor.rs:128-162
parse_vietnamese_amount(t) == DecimalFromStr(NormalizedAmount(t))

\* gemini_service.rs:568-580: the text handed to Decimal::from_str
NormalizedField(t) ==
    LET cleaned == CleanedField(t)
        parts == Split(cleaned, ",")
    IN  IF Contains(cleaned, ",") /\ Contains(cleaned, ".")
        THEN IF Len(parts) = 2
             THEN RemoveChar(parts[1], ".") \o <<".">> \o parts[2]
             ELSE cleaned
        ELSE IF Contains(cleaned, ",") /\ ~Contains(cleaned, ".")
        THEN ReplaceChar(cleaned, ",", ".")
        ELSE cleaned

\* gemini_service.rs:559-590: None is NoAmount
extract_decimal_field(t) ==
    IF NormalizedField(t) # <<>> THEN DecimalFromStr(NormalizedField(t))
    ELSE NoAmount

RECURSIVE TextsOver(_, _)
TextsOver(alphabet, n) ==
    IF n = 0 THEN {<<>>}
    ELSE LET shorter == TextsOver(alphabet, n - 1)
         IN  shorter \cup {Append(t, c) : t \in {u \in shorter : Len(u) = n - 1},
                                          c \in alphabet}

\* the texts of the documentation and of the tests, and every text of up to
\* MaxText characters over two digits and the two separators that begins
\* and ends with a digit
AmountTexts ==
    {<<"1", ".", "2", "3", "4", ".", "5", "6", "7", ",", "8", "9">>,
     <<"1", "2", "3", "4", ".", "5", "6">>,
     <<"1", "2", "3", "4", ",", "5", "6">>,
     <<"1", ".", "2", "3", "4", ",", "5", "6">>,
     <<"1", ",", "2", "3", "4", ".", "5", "6">>,
     <<"1", ".", "0", "0", "0", ".", "0", "0", "0">>,
     <<"1", "0", "0", "0", " ", "V", "N", "D">>}
    \cup {t \in TextsOver({"1", "2", ".", ","}, MaxText) :
            t # <<>> /\ t[1] \in Digits /\ t[Len(t)] \in Digits}

NewAmount(t) ==
    [step |-> "text", text |-> t, parsed |-> NoAmount, field |-> NoAmount,
     by_extractor |-> FALSE, by_service |-> FALSE]

\* bill_extractor.rs:128-162
ParseVietnameseAmount ==
    /\ amount.step = "text"
    /\ ~amount.by_extractor
    /\ amount' = [amount EXCEPT !.by_extractor = TRUE,
                                !.parsed = parse_vietnamese_amount(amount.text)]
    /\ UNCHANGED <<pipeline, client, validator, extractor, confidence, date,
                   response>>

\* gemini_service.rs:559-590
ExtractDecimalField ==
    /\ amount.step = "text"
    /\ ~amount.by_service
    /\ amount' = [amount EXCEPT !.by_service = TRUE,
                                !.field = extract_decimal_field(amount.text)]
    /\ UNCHANGED <<pipeline, client, validator, extractor, confidence, date,
                   response>>

InitAmount ==
    /\ InitWith({NoBody}, {NoBody})
    /\ response = NoCall
    /\ date = NoCall
    /\ client = NoCall
    /\ validator = NoCall
    /\ extractor = NoCall
    /\ confidence = NoCall
    /\ amount \in {NewAmount(t) : t \in AmountTexts}

NextAmount == ParseVietnameseAmount \/ ExtractDecimalField

SpecAmount == InitAmount /\ [][NextAmount]_vars

(***************************************************************************)
(* Date texts: parse_vietnamese_date (bill_extractor.rs:97-120) over       *)
(* chrono's NaiveDate::parse_from_str.  A format is a sequence of items:   *)
(* a literal character or a number of at most `width` digits; %Y also      *)
(* takes a sign followed by any number of digits.                          *)
(***************************************************************************)
Lit(c) == [kind |-> "lit", c |-> c, width |-> 0, field |-> "none"]

Num(f, w) == [kind |-> "num", c |-> "", width |-> w, field |-> f]

DayMonthYear(sep, year) ==
    <<Num("day", 2), Lit(sep), Num("month", 2), Lit(sep), year>>

\* bill_extractor.rs:101-108 with the ISO format tried first
FormatAtIsoFirst(i) ==
    CASE i = 1 -> <<Num("year", 4), Lit("-"), Num("month", 2), Lit("-"),
                    Num("day", 2)>>
      [] i = 2 -> DayMonthYear("/", Num("year", 4))
      [] i = 3 -> DayMonthYear("-", Num("year", 4))
      [] i = 4 -> DayMonthYear(".", Num("year", 4))
      [] i = 5 -> DayMonthYear("/", Num("year_mod_100", 2))
      [] i = 6 -> DayMonthYear("-", Num("year_mod_100", 2))

\* bill_extractor.rs:101-108: "%d/%m/%Y", "%d-%m-%Y", "%d.%m.%Y",
\* "%Y-%m-%d", "%d/%m/%y", "%d-%m-%y"
FormatAt(i) ==
    CASE i = 1 -> DayMonthYear("/", Num("year", 4))
      [] i = 2 -> DayMonthYear("-", Num("year", 4))
      [] i = 3 -> DayMonthYear(".", Num("year", 4))
      [] i = 4 -> <<Num("year", 4), Lit("-"), Num("month", 2), Lit("-"),
                    Num("day", 2)>>
      [] i = 5 -> DayMonthYear("/", Num("year_mod_100", 2))
      [] i = 6 -> DayMonthYear("-", Num("year_mod_100", 2))

FormatCount == 6

NoFields == [day |-> 0, month |-> 0, year |-> 0, year_mod_100 |-> -1]

NoDateParsed == [ok |-> FALSE, year |-> 0, month |-> 0, day |-> 0]

\* the number of leading digits of t, at most max
RECURSIVE LeadingDigits(_, _)
LeadingDigits(t, max) ==
    IF t = <<>> \/ max = 0 THEN 0
    ELSE IF t[1] \in Digits THEN 1 + LeadingDigits(Tail(t), max - 1)
    ELSE 0

\* str::trim_start
RECURSIVE TrimStart(_)
TrimStart(t) ==
    IF t # <<>> /\ t[1] = " " THEN TrimStart(Tail(t)) ELSE t

\* chrono's parser over the items from the i-th on: the fields read, or a
\* failure
RECURSIVE Scan(_, _, _, _)
Scan(t, items, i, acc) ==
    IF i > Len(items)
    THEN IF t = <<>> THEN [ok |-> TRUE, fields |-> acc]
         ELSE [ok |-> FALSE, fields |-> NoFields]
    ELSE IF items[i].kind = "lit"
    THEN IF t # <<>> /\ t[1] = items[i].c
         THEN Scan(Tail(t), items, i + 1, acc)
         ELSE [ok |-> FALSE, fields |-> NoFields]
    ELSE LET u == TrimStart(t)
             signed == /\ items[i].field = "year"
                       /\ u # <<>> /\ u[1] \in {"-", "+"}
             v == IF signed THEN Tail(u) ELSE u
             k == LeadingDigits(v, IF signed THEN Len(v) ELSE items[i].width)
             n == DigitsValue(SubSeq(v, 1, k))
         IN  IF k = 0 THEN [ok |-> FALSE, fields |-> NoFields]
             ELSE Scan(SubSeq(v, k + 1, Len(v)), items, i + 1,
                       [acc EXCEPT ![items[i].field] =
                            IF signed /\ u[1] = "-" THEN 0 - n ELSE n])

IsLeapYear(y) == (y % 4 = 0 /\ y % 100 # 0) \/ y % 400 = 0

DaysInMonth(y, mth) ==
    IF mth = 2 THEN (IF IsLeapYear(y) THEN 29 ELSE 28)
    ELSE IF mth \in {4, 6, 9, 11} THEN 30
    ELSE 31

\* chrono's Parsed::to_naive_date: a two-digit year below 70 is of the
\* 2000s and of the 1900s otherwise; the day must exist
ToNaiveDate(f) ==
    LET y == IF f.year_mod_100 >= 0
             THEN f.year_mod_100 + (IF f.year_mod_100 < 70 THEN 2000 ELSE 1900)
             ELSE f.year
    IN  IF f.month \in 1..12 /\ f.day >= 1 /\ f.day <= DaysInMonth(y, f.month)
        THEN [ok |-> TRUE, year |-> y, month |-> f.month, day |-> f.day]
        ELSE NoDateParsed

\* NaiveDate::parse_from_str(cleaned, format)
ParseFromStr(t, items) ==
    LET scanned == Scan(t, items, 1, NoFields)
    IN  IF scanned.ok THEN ToNaiveDate(scanned.fields) ELSE NoDateParsed

\* str::trim
RECURSIVE TrimEnd(_)
TrimEnd(t) ==
    IF t # <<>> /\ t[Len(t)] = " "
    THEN TrimEnd(SubSeq(t, 1, Len(t) - 1)) ELSE t

\* bill_extractor.rs:110-114 from the i-th format on
RECURSIVE TryFormats(_, _)
TryFormats(t, i) ==
    IF i > FormatCount THEN NoDateParsed
    ELSE IF ParseFromStr(t, FormatAt(i)).ok THEN ParseFromStr(t, FormatAt(i))
    ELSE TryFormats(t, i + 1)

\* bill_extractor.rs:97-120: DateParseError is NoDateParsed
parse_vietnamese_date(t) == TryFormats(TrimEnd(TrimStart(t)), 1)

\* the texts of the tests, texts on the edges of the calendar, and every
\* text of up to MaxText characters over two digits and the separators
DateTexts ==
    {<<"3", "1", "/", "1", "2", "/", "2", "0", "2", "4">>,
     <<"3", "1", "-", "1", "2", "-", "2", "0", "2", "4">>,
     <<"3", "1", ".", "1", "2", ".", "2", "0", "2", "4">>,
     <<"2", "0", "2", "4", "-", "1", "2", "-", "3", "1">>,
     <<"i", "n", "v", "a", "l", "i", "d">>,
     <<"3", "1", "/", "1", "2", "/", "2", "4">>,
     <<"3", "1", "-", "1", "2", "-", "7", "0">>,
     <<"2", "9", "/", "0", "2", "/", "2", "0", "2", "4">>,
     <<"2", "9", "/", "0", "2", "/", "2", "0", "2", "3">>,
     <<"3", "1", "/", "0", "4", "/", "2", "0", "2", "4">>,
     <<"1", "-", "2", "-", "-", "3">>,
     <<" ", "1", ".", "2", ".", "3", " ">>}
    \cup TextsOver({"1", "3", "/", "-", "."}, MaxText)

NewDate(t) == [step |-> "text", text |-> t, result |-> NoDateParsed]

\* bill_extractor.rs:97-120
ParseVietnameseDate ==
    /\ date.step = "text"
    /\ date' = [date EXCEPT !.step = "done",
                            !.result = parse_vietnamese_date(date.text)]
    /\ UNCHANGED <<pipeline, client, validator, extractor, confidence,
                   amount,
                   response>>

InitDate ==
    /\ InitWith({NoBody}, {NoBody})
    /\ response = NoCall
    /\ client = NoCall
    /\ validator = NoCall
    /\ extractor = NoCall
    /\ confidence = NoCall
    /\ amount = NoCall
    /\ date \in {NewDate(t) : t \in DateTexts}

NextDate == ParseVietnameseDate

SpecDate == InitDate /\ [][NextDate]_vars

(***************************************************************************)
(* The response object: GeminiOCRResponse (gemini_response.rs:11-19) with  *)
(* its summary, built by add_result and add_error.  A result is its image  *)
(* index, its overall confidence in hundredths and its processing time in  *)
(* milliseconds; an error is its type and its image index, NoIndex for     *)
(* None.  The average is kept as the quotient sum / len it is computed     *)
(* from.                                                                   *)
(***************************************************************************)
\* the calls made on one response
MaxCalls == 4

NoAverage == [some |-> FALSE, sum |-> 0, len |-> 0]

\* gemini_response.rs:242-250: ProcessingSummary::new
NewSummary ==
    [total_images |-> 0, successful_extractions |-> 0,
     failed_extractions |-> 0, total_processing_time_ms |-> 0,
     average_confidence |-> NoAverage]

\* gemini_response.rs:171-186: GeminiOCRResponse::new and with_capacity
NewResponse ==
    [results |-> <<>>, errors |-> <<>>, processing_summary |-> NewSummary]

\* gemini_response.rs:225-237: BillExtractionResult::new
BillExtractionResult(index, overall, time) ==
    [image_index |-> index, overall |-> overall, processing_time_ms |-> time]

\* gemini_response.rs:255-266: ProcessingError::new
ProcessingErrorNew(type, index) == [error_type |-> type, image_index |-> index]

RECURSIVE SumOverall(_)
\* gemini_response.rs:215-218: the sum of the results' overall scores
SumOverall(rs) ==
    IF rs = <<>> THEN 0 ELSE rs[1].overall + SumOverall(Tail(rs))

\* gemini_response.rs:209-220
update_average_confidence(r) ==
    IF r.results = <<>>
    THEN [r EXCEPT !.processing_summary.average_confidence = NoAverage]
    ELSE [r EXCEPT !.processing_summary.average_confidence =
                       [some |-> TRUE, sum |-> SumOverall(r.results),
                        len |-> Len(r.results)]]

\* gemini_response.rs:189-197
add_result(r, result) ==
    update_average_confidence(
        [r EXCEPT !.processing_summary.total_images = @ + 1,
                  !.processing_summary.successful_extractions = @ + 1,
                  !.processing_summary.total_processing_time_ms =
                      @ + result.processing_time_ms,
                  !.results = Append(@, result)])

\* every error counted as a failed extraction
add_error_counting_all(r, error) ==
    [r EXCEPT !.processing_summary.failed_extractions = @ + 1,
              !.errors = Append(@, error)]

\* gemini_response.rs:200-206
add_error(r, error) ==
    [r EXCEPT !.processing_summary.failed_extractions =
                  IF error.image_index # NoIndex THEN @ + 1 ELSE @,
              !.errors = Append(@, error)]

\* overall scores in hundredths and processing times in milliseconds
Overalls == {0, 45, 90}

Elapsed == {0, 3}

ImageIndexes == {0, 1}

ErrorTypes == {"ApiError", "ValidationError"}

CallsMade == Len(response.value.results) + Len(response.value.errors)

\* one add_result call
AddResult ==
    /\ response.step = "building"
    /\ CallsMade < MaxCalls
    /\ \E i \in ImageIndexes, o \in Overalls, t \in Elapsed :
           response' = [response EXCEPT
                           !.value = add_result(@,
                                         BillExtractionResult(i, o, t))]
    /\ UNCHANGED <<pipeline, client, validator, extractor, confidence,
                   amount, date>>

\* one add_error call
AddError ==
    /\ response.step = "building"
    /\ CallsMade < MaxCalls
    /\ \E type \in ErrorTypes, i \in ImageIndexes \cup {NoIndex} :
           response' = [response EXCEPT
                           !.value = add_error(@,
                                         ProcessingErrorNew(type, i))]
    /\ UNCHANGED <<pipeline, client, validator, extractor, confidence,
                   amount, date>>

InitResponse ==
    /\ InitWith({NoBody}, {NoBody})
    /\ client = NoCall
    /\ validator = NoCall
    /\ extractor = NoCall
    /\ confidence = NoCall
    /\ amount = NoCall
    /\ date = NoCall
    /\ response = [step |-> "building", value |-> NewResponse]

NextResponse == AddResult \/ AddError

SpecResponse == InitResponse /\ [][NextResponse]_vars

(***************************************************************************)
(* parse_gemini_response (gemini_service.rs:347-464) over one API          *)
(* response for one image: what it returns, by the shape of the response   *)
(* and, for a response that carries a JSON record, by the record.          *)
(***************************************************************************)
\* a record with no field extracted
NoBill ==
    [issue_date |-> NoDate, total_amount |-> NoDecimal,
     tax_rate |-> NoDecimal, tax_amount |-> NoDecimal, tax_code |-> "none",
     quantity |-> NoDecimal, unit_price |-> NoDecimal]

\* gemini_service.rs:359-429: no `candidates` array, an empty one, a first
\* candidate with a finishReason other than STOP, one with no text part,
\* one whose text is not JSON, and one whose text is a JSON record
ApiResponses ==
    [shape : {"json"}, bill : Bills]
        \cup [shape : {"missing_candidates", "no_candidates", "blocked",
                       "no_content", "invalid_json"},
              bill : {NoBill}]

\* gemini_service.rs:748-822: the order the findings are pushed in
FindingOrder ==
    <<"future_date", "older_than_10_years", "negative_total", "negative_tax",
      "tax_rate_range", "tax_inconsistency", "tax_code_format">>

\* gemini_service.rs:438: validation_errors
ValidationErrors(b) ==
    SelectSeq(FindingOrder, LAMBDA f : f \in validate_extracted_data(b))

RECURSIVE AddWarnings(_, _)
\* gemini_service.rs:442-448: one error with image index 0 for each finding
AddWarnings(r, findings) ==
    IF findings = <<>> THEN r
    ELSE AddWarnings(add_error(r, ProcessingErrorNew("ValidationError", 0)),
                     Tail(findings))

\* gemini_service.rs:347-464
parse_gemini_response(api, overall, elapsed) ==
    IF api.shape \in {"missing_candidates", "no_content", "invalid_json"}
    THEN [ok |-> FALSE, value |-> NewResponse]
    ELSE IF api.shape = "no_candidates"
    THEN [ok |-> TRUE, value |-> NewResponse]
    ELSE IF api.shape = "blocked"
    THEN [ok |-> TRUE,
          value |-> add_error(NewResponse,
                              ProcessingErrorNew("ApiError", NoIndex))]
    ELSE [ok |-> TRUE,
          value |-> add_result(
                        AddWarnings(NewResponse, ValidationErrors(api.bill)),
                        BillExtractionResult(0, overall, elapsed))]

NewParse(api) ==
    [step |-> "api", api |-> api, ok |-> FALSE, value |-> NewResponse]

\* one call of parse_gemini_response with image_count = 1
ParseGeminiResponseCall ==
    /\ response.step = "api"
    /\ \E o \in Overalls, t \in Elapsed :
           LET out == parse_gemini_response(response.api, o, t)
           IN  response' = [response EXCEPT !.step = "parsed",
                                            !.ok = out.ok,
                                            !.value = out.value]
    /\ UNCHANGED <<pipeline, client, validator, extractor, confidence,
                   amount, date>>

InitParse ==
    /\ InitWith({NoBody}, {NoBody})
    /\ client = NoCall
    /\ validator = NoCall
    /\ extractor = NoCall
    /\ confidence = NoCall
    /\ amount = NoCall
    /\ date = NoCall
    /\ response \in {NewParse(api) : api \in ApiResponses}

NextParse == ParseGeminiResponseCall

SpecParse == InitParse /\ [][NextParse]_vars

(***************************************************************************)
(* process_images (gemini_service.rs:860-990) over one request:            *)
(* GeminiOCRRequest::validate first, then one process_single_image call    *)
(* per image in request order, each answered by add_result or add_error,   *)
(* with the sleeps between images.  process_single_image and               *)
(* map_processing_error_type are called but not defined in the sources:    *)
(* the call returns either of the Ok and Err arms matched at its call      *)
(* site, and the error type is any.                                        *)
(***************************************************************************)
\* the images of one request
MaxImages == 3

\* gemini_request.rs:77: self.images.len() > 10
max_images == 10

\* gemini_service.rs:957
INTER_IMAGE_DELAY_MS == 500

\* gemini_request.rs:106-127: a JPEG or PNG within the size limit, another
\* MIME type, more than 20 MB, no content
ImageKinds == {"image", "bad_mime", "oversized", "empty"}

\* every list of up to MaxImages images, and one of max_images + 1
ImageLists ==
    UNION {[1..n -> ImageKinds] : n \in 0..MaxImages}
        \cup {[i \in 1..(max_images + 1) |-> "image"]}

\* gemini_request.rs:56-66, 158-176: the images and whether the options
\* are within their ranges
Requests == [images : ImageLists, options_valid : BOOLEAN]

\* an empty request passing the validation
validate_allowing_empty(request) ==
    IF Len(request.images) > max_images THEN "too_many_images"
    ELSE IF \E i \in 1..Len(request.images) : request.images[i] # "image"
    THEN "image_invalid"
    ELSE IF ~request.options_valid THEN "options_invalid"
    ELSE "ok"

\* gemini_request.rs:70-91
validate(request) ==
    IF request.images = <<>> THEN "no_images"
    ELSE IF Len(request.images) > max_images THEN "too_many_images"
    ELSE IF \E i \in 1..Len(request.images) : request.images[i] # "image"
    THEN "image_invalid"
    ELSE IF ~request.options_valid THEN "options_invalid"
    ELSE "ok"

\* gemini_service.rs:921: the errors of one image, with and without a
\* retry delay
ImageErrors ==
    {OcrError("RateLimit", 0, DeclaredSeconds),
     OcrError("Timeout", 0, NoSeconds), OcrError("Parse", 0, NoSeconds)}

NewBatch(request) ==
    [step |-> "validate", request |-> request, index |-> 0,
     calls |-> <<>>, slept |-> <<>>, total_processing_time |-> 0,
     ok |-> "pending", value |-> NewResponse]

\* gemini_service.rs:865
total_images == Len(response.request.images)

\* gemini_service.rs:954-959: the delay after every image but the last
InterImageDelay(index) ==
    IF index + 1 < total_images THEN <<INTER_IMAGE_DELAY_MS>> ELSE <<>>

\* gemini_service.rs:939-948: the back-off after a rate-limited image but
\* the last, in milliseconds
Backoff(error, index) ==
    IF retry_after_seconds(error) # NoSeconds /\ index + 1 < total_images
    THEN <<1000 * retry_after_seconds(error)>>
    ELSE <<>>

\* gemini_service.rs:869-880: request.validate()?, then an empty response
ValidateRequest ==
    /\ response.step = "validate"
    /\ response' =
           IF validate(response.request) = "ok"
           THEN [response EXCEPT !.step = "loop"]
           ELSE [response EXCEPT !.step = "returned", !.ok = "Err"]
    /\ UNCHANGED <<pipeline, client, validator, extractor, confidence,
                   amount, date>>

\* gemini_service.rs:888-920, 954-959: one image, extracted
ProcessImageOk ==
    /\ response.step = "loop"
    /\ response.index < total_images
    /\ \E o \in Overalls, t \in Elapsed :
           response' = [response EXCEPT
               !.calls = Append(@, response.index),
               !.total_processing_time = @ + t,
               !.value = add_result(@,
                             BillExtractionResult(response.index, o, t)),
               !.slept = @ \o InterImageDelay(response.index),
               !.index = @ + 1]
    /\ UNCHANGED <<pipeline, client, validator, extractor, confidence,
                   amount, date>>

\* gemini_service.rs:888-904, 921-959: one image, failed
ProcessImageErr ==
    /\ response.step = "loop"
    /\ response.index < total_images
    /\ \E error \in ImageErrors, type \in ErrorTypes, t \in Elapsed :
           response' = [response EXCEPT
               !.calls = Append(@, response.index),
               !.total_processing_time = @ + t,
               !.value = add_error(@,
                             ProcessingErrorNew(type, response.index)),
               !.slept = @ \o Backoff(error, response.index)
                           \o InterImageDelay(response.index),
               !.index = @ + 1]
    /\ UNCHANGED <<pipeline, client, validator, extractor, confidence,
                   amount, date>>

\* gemini_service.rs:962-989: the final statistics, then Ok(response)
ReturnResponse ==
    /\ response.step = "loop"
    /\ response.index = total_images
    /\ response' = [response EXCEPT
           !.step = "returned",
           !.ok = "Ok",
           !.value.processing_summary.total_images = total_images,
           !.value.processing_summary.total_processing_time_ms =
               response.total_processing_time]
    /\ UNCHANGED <<pipeline, client, validator, extractor, confidence,
                   amount, date>>

InitImages ==
    /\ InitWith({NoBody}, {NoBody})
    /\ client = NoCall
    /\ validator = NoCall
    /\ extractor = NoCall
    /\ confidence = NoCall
    /\ amount = NoCall
    /\ date = NoCall
    /\ response \in {NewBatch(request) : request \in Requests}

NextImages ==
    ValidateRequest \/ ProcessImageOk \/ ProcessImageErr \/ ReturnResponse

SpecImages == InitImages /\ [][NextImages]_vars

(***************************************************************************)
(* Vocabulary of the properties.                                           *)
(***************************************************************************)
\* the background task of s has run to its end or has died
TaskOver(s) == pc[s] \in {"done", "panicked"}

\* the steps of the background task of s
TaskStep(s) ==
    \/ CollectField(s) \/ CollectOther(s) \/ CollectError(s)
    \/ CollectEmpty(s)
    \/ UploadStarted(s) \/ ImageReceived(s) \/ ImageValidationStart(s)
    \/ ValidateOk(s) \/ ValidateErr(s) \/ Resize(s)
    \/ GeminiProcessingStart(s) \/ GeminiInitError(s) \/ GeminiCallError(s)
    \/ GeminiCallOk(s) \/ CandidateInvalid(s) \/ CandidateSaved(s)
    \/ CandidateNotSaved(s) \/ GeminiOk(s) \/ GeminiFailed(s)
    \/ AllImagesValidated(s) \/ ProcessingComplete(s) \/ ProcessingError(s)

\* ranks of the terminal events among the events s has published
Terminals(s) == {i \in 1..Len(sent[s]) : IsTerminal(sent[s][i])}

\* the events s has published for file f, in order
FileEvents(s, f) == SelectSeq(sent[s], LAMBDA e : e.idx = f)

\* number of events of one of the types T that s has published
CountType(s, T) == Len(SelectSeq(sent[s], LAMBDA e : e.type \in T))

\* number of events of one of the types T that s has published for file f
CountFile(s, f, T) ==
    Len(SelectSeq(sent[s], LAMBDA e : e.idx = f /\ e.type \in T))

\* the two validation results of a file
ValidationResults == {"ImageValidationSuccess", "ImageValidationError"}

\* the events of the extraction and persistence stage of a file
ExtractionEvents == {"GeminiProcessingStart", "GeminiProcessingSuccess",
                     "GeminiProcessingError", "BillDataSaved"}

\* s has read a body with at least one file to its end and has stopped
BatchOver(s) == TaskOver(s) /\ CountType(s, {"UploadStarted"}) > 0

\* AllImagesValidated.failed_count (ocr.rs:216): files.len() - successful_files
FailedCount(e) == e.total - e.ok

\* the per-file loop of s has left file f behind
FileOver(s, f) == CountType(s, {"UploadStarted"}) > 0 /\ file_index[s] > f

\* number of create_bill() calls of the running process_with_gemini of s
\* that were made for candidate c
CreatedFor(s, c) ==
    Cardinality({k \in 1..Len(created[s]) : created[s][k].candidate = c})

\* number of records the sink accepted in the running process_with_gemini
SavedCount(s) ==
    Cardinality({k \in 1..Len(created[s]) : created[s][k].saved})

\* this step is a create_bill() call of s that the sink refuses
SinkFailureStep(s) ==
    /\ Len(created'[s]) = Len(created[s]) + 1
    /\ ~created'[s][Len(created'[s])].saved

\* this step is the return of process_with_gemini from its candidate loop
LeavesCandidateLoop(s) == pc[s] = "candidates" /\ pc'[s] # "candidates"

\* the response stream of s has been handed to a client that is still there
Attached(s) == stream[s].st \in {"open", "ended", "lagged"}

\* the response stream of s has nothing left to yield
Drained(s) == stream[s].st \in {"ended", "lagged"} \/ stream[s].unread = 0

\* the response stream of s closed on the terminal event of its own session
EndedOnOwnTerminal(s) ==
    /\ stream[s].st = "ended"
    /\ IsTerminal(stream[s].last)
    /\ stream[s].last.sid = s

\* this step is a turn of the stream loop of s that yields an event: it is
\* the only step that lowers the unread count of a stream that stays with
\* its client
YieldStep(s) ==
    /\ stream[s].st = "open"
    /\ stream'[s].st \in {"open", "ended"}
    /\ stream'[s].unread < stream[s].unread

(***************************************************************************)
(* C1: every session publishes exactly one terminal event                  *)
(* (ProcessingComplete or ProcessingError) and nothing after it: at any    *)
(* time at most one terminal event has been published and it is the last   *)
(* event, and a task that is over has published one.                       *)
(***************************************************************************)
C1_ExactlyOneTerminal ==
    \A s \in Sessions :
        /\ Cardinality(Terminals(s)) <= 1
        /\ Terminals(s) \subseteq {Len(sent[s])}
        /\ TaskOver(s) => Terminals(s) # {}

(***************************************************************************)
(* C2: with two sessions running, the response stream of a session yields  *)
(* only events of its own orchestrator and is not closed by the terminal   *)
(* event of the other session.                                             *)
(***************************************************************************)
C2_StreamIsolated ==
    \A s \in Sessions :
        /\ stream[s].last # NoEvent => stream[s].last.sid = s
        /\ stream[s].st = "ended" => stream[s].last.sid = s

(***************************************************************************)
(* C3: whenever the background task has finished and the response stream   *)
(* of its request (the client still attached) has nothing left to yield,   *)
(* the stream has closed on the terminal event of its own session, however *)
(* the task and the handler's subscribe call interleave.                   *)
(***************************************************************************)
C3_StreamEndsWithOwnTerminal ==
    \A s \in Sessions :
        (pc[s] = "done" /\ Attached(s) /\ Drained(s)) => EndedOnOwnTerminal(s)

(***************************************************************************)
(* C4: whatever the subscriber does (absent, not reading, disconnected),   *)
(* a task that is not over can take its next step, and a task that is over *)
(* has published its terminal event.                                       *)
(***************************************************************************)
C4_ReachesTerminalPublish ==
    \A s \in Sessions :
        pc[s] # "idle" =>
            IF TaskOver(s) THEN \E i \in 1..Len(sent[s]) : IsTerminal(sent[s][i])
            ELSE ENABLED TaskStep(s)

(***************************************************************************)
(* C5: a stream never yields an event that its session had published       *)
(* before the stream subscribed, and a stream that has begun to yield the  *)
(* events of its session and reads on until nothing is left has closed on  *)
(* the terminal event of that session.                                     *)
(***************************************************************************)
C5_LateSubscriberSeesTerminal ==
    /\ [][\A s \in Sessions :
            (YieldStep(s) /\ stream'[s].last.sid = s)
                => stream'[s].last.seq > stream[s].seen[s]]_vars
    /\ [](\A s \in Sessions :
            (pc[s] = "done" /\ Attached(s) /\ Drained(s)
                /\ stream[s].last.sid = s)
                => EndedOnOwnTerminal(s))

(***************************************************************************)
(* C6: an overflow of a subscriber's queue does not close its stream.      *)
(***************************************************************************)
C6_OverflowKeepsStreamOpen ==
    \A s \in Sessions : stream[s].st # "lagged"

(***************************************************************************)
(* C7: what a stream yields is a subsequence of what was published: every  *)
(* yielded event is the event its producer published at that rank, and its *)
(* rank is above the rank of every event of that producer the stream has   *)
(* yielded before (no reordering, no duplicate, nothing invented).         *)
(***************************************************************************)
C7_YieldsSubsequence ==
    [][\A s \in Sessions :
          YieldStep(s) =>
              LET e == stream'[s].last IN
              /\ e.sid \in Sessions
              /\ e.seq \in 1..Len(sent[e.sid])
              /\ sent[e.sid][e.seq] = e
              /\ e.seq > stream[s].seen[e.sid]]_vars

\* a stream that has yielded its way to the ProcessingComplete of a session
\* with at least one file
C7_Witness ==
    \E s \in Sessions :
        /\ EndedOnOwnTerminal(s)
        /\ stream[s].last.type = "ProcessingComplete"
        /\ stream[s].seen[s] = Len(sent[s])
        /\ stream[s].unread = 0

C9_FilesEndWithComplete ==
    \A s \in Sessions :
        /\ (TaskOver(s) /\ body[s].parts >= 1 /\ ~body[s].broken)
              => /\ sent[s] # <<>>
                 /\ sent[s][Len(sent[s])].type = "ProcessingComplete"
        /\ \A i \in 1..Len(sent[s]) :
              sent[s][i].type = "ProcessingError"
                  => (body[s].parts = 0 \/ body[s].broken)

(***************************************************************************)
(* C10: the events that carry a file index are published in the order of   *)
(* the indexes, and the events of each file begin with ImageReceived, then *)
(* ImageValidationStart, then the validation result of that file.          *)
(***************************************************************************)
C10_FilesInOrder ==
    \A s \in Sessions :
        /\ LET q == SelectSeq(sent[s], LAMBDA e : e.idx # NoIndex) IN
           \A i \in 1..(Len(q) - 1) : q[i].idx <= q[i + 1].idx
        /\ \A f \in 0..(MaxFiles + 1) :
              LET q == FileEvents(s, f) IN
              /\ Len(q) >= 1 => q[1].type = "ImageReceived"
              /\ Len(q) >= 2 => q[2].type = "ImageValidationStart"
              /\ Len(q) >= 3 => q[3].type \in {"ImageValidationSuccess",
                                               "ImageValidationError"}
              /\ \A i \in 4..Len(q) :
                    q[i].type \notin {"ImageReceived", "ImageValidationStart",
                                      "ImageValidationSuccess",
                                      "ImageValidationError"}

\* a finished session of two files, the first of them valid
C10_Witness ==
    \E s \in Sessions :
        /\ pc[s] = "done"
        /\ Len(FileEvents(s, 0)) >= 5
        /\ Len(FileEvents(s, 1)) >= 4

(***************************************************************************)
(* C11: UploadStarted is published only once the whole multipart body has  *)
(* been read; it is the first event of its session; its total_files is the *)
(* number of `images` parts of the body (fields of another name are not    *)
(* counted); ProcessingComplete reports the same total_files.              *)
(***************************************************************************)
C11_UploadStartedCountsImages ==
    \A s \in Sessions :
        \A i \in 1..Len(sent[s]) :
            LET e == sent[s][i] IN
            /\ e.type = "UploadStarted"
                  => /\ i = 1
                     /\ BodyRead(s)
                     /\ e.total = body[s].parts
            /\ e.type \notin {"UploadStarted", "ProcessingError"}
                  => i > 1 /\ sent[s][1].type = "UploadStarted"
            /\ e.type = "ProcessingComplete"
                  => e.total = sent[s][1].total

\* a finished batch of two images and a field of another name
C11_Witness ==
    \E s \in Sessions :
        /\ pc[s] = "done"
        /\ body[s].parts = 2 /\ body[s].other
        /\ sent[s][1].type = "UploadStarted" /\ sent[s][1].total = 2
        /\ sent[s][Len(sent[s])].type = "ProcessingComplete"

(***************************************************************************)
(* C12: every file of a batch gets exactly one validation result           *)
(* (ImageValidationSuccess or ImageValidationError): never two, and one    *)
(* for each file once the task is over; a file with ImageValidationError   *)
(* has no event of the extraction stage, its error is its last event.      *)
(***************************************************************************)
C12_OneValidationResultPerFile ==
    \A s \in Sessions :
        /\ \A f \in 0..MaxFiles :
              /\ CountFile(s, f, ValidationResults) <= 1
              /\ CountFile(s, f, {"ImageValidationError"}) = 1
                    => /\ CountFile(s, f, ExtractionEvents) = 0
                       /\ FileEvents(s, f)[Len(FileEvents(s, f))].type
                              = "ImageValidationError"
        /\ BatchOver(s)
              => \A f \in 0..(files[s] - 1) :
                    CountFile(s, f, ValidationResults) = 1

(***************************************************************************)
(* C13: successful_files of ProcessingComplete is the number of            *)
(* ImageValidationSuccess events of the session, whether the extraction of *)
(* those files succeeded or failed.                                        *)
(***************************************************************************)
C13_SuccessfulCountsValidated ==
    \A s \in Sessions :
        \A i \in 1..Len(sent[s]) :
            sent[s][i].type = "ProcessingComplete"
                => sent[s][i].ok = CountType(s, {"ImageValidationSuccess"})

\* a finished batch of two validated files, one whose extraction failed and
\* one whose record was saved
C13_Witness ==
    \E s \in Sessions :
        /\ pc[s] = "done"
        /\ sent[s][Len(sent[s])].type = "ProcessingComplete"
        /\ sent[s][Len(sent[s])].ok = 2
        /\ CountType(s, {"GeminiProcessingError"}) > 0
        /\ CountType(s, {"BillDataSaved"}) > 0

(***************************************************************************)
(* C14: a batch with files publishes AllImagesValidated exactly once,      *)
(* after every event that carries a file index and immediately before      *)
(* ProcessingComplete; its total_processed is the batch size, its          *)
(* successful_count is at most the total (so that successful_count +       *)
(* failed_count = total_processed), and its failed_count is the number of  *)
(* ImageValidationError events.                                            *)
(***************************************************************************)
C14_AllImagesValidatedOnce ==
    \A s \in Sessions :
        /\ CountType(s, {"AllImagesValidated"}) <= 1
        /\ BatchOver(s) => CountType(s, {"AllImagesValidated"}) = 1
        /\ \A i \in 1..Len(sent[s]) :
              LET e == sent[s][i] IN
              /\ e.type = "ProcessingComplete"
                    => i > 1 /\ sent[s][i - 1].type = "AllImagesValidated"
              /\ e.type = "AllImagesValidated"
                    => /\ \A j \in 1..Len(sent[s]) :
                             sent[s][j].idx # NoIndex => j < i
                       /\ CountFile(s, files[s] - 1, ValidationResults) = 1
                       /\ e.total = files[s]
                       /\ e.ok \in 0..e.total
                       /\ FailedCount(e)
                              = CountType(s, {"ImageValidationError"})

(***************************************************************************)
(* C15: a validated file whose extraction fails before any response has    *)
(* arrived (GeminiProcessingStart published, no GeminiProcessingSuccess)   *)
(* has exactly one GeminiProcessingError once the loop has left it.        *)
(***************************************************************************)
C15_OneErrorPerFailedCall ==
    \A s \in Sessions :
        \A f \in 0..MaxFiles :
            (/\ FileOver(s, f)
             /\ CountFile(s, f, {"GeminiProcessingStart"}) = 1
             /\ CountFile(s, f, {"GeminiProcessingSuccess"}) = 0)
                => CountFile(s, f, {"GeminiProcessingError"}) = 1

(***************************************************************************)
(* C16: a file with GeminiProcessingStart has, once the loop has left it,  *)
(* exactly one outcome event, GeminiProcessingSuccess or                   *)
(* GeminiProcessingError and never both; every BillDataSaved of a file     *)
(* comes after the GeminiProcessingSuccess of that file.                   *)
(***************************************************************************)
C16_OneOutcomePerFile ==
    \A s \in Sessions :
        /\ \A f \in 0..MaxFiles :
              (FileOver(s, f) /\ CountFile(s, f, {"GeminiProcessingStart"}) = 1)
                  => CountFile(s, f, {"GeminiProcessingSuccess",
                                      "GeminiProcessingError"}) = 1
        /\ \A i \in 1..Len(sent[s]) :
              sent[s][i].type = "BillDataSaved"
                  => \E j \in 1..(i - 1) :
                        /\ sent[s][j].type = "GeminiProcessingSuccess"
                        /\ sent[s][j].idx = sent[s][i].idx

(***************************************************************************)
(* C17: no candidate is handed to create_bill() twice, and when            *)
(* process_with_gemini returns from its candidate loop every candidate     *)
(* that extract_and_validate() accepts has been handed to create_bill()    *)
(* exactly once, also those that come after a candidate it rejects.        *)
(***************************************************************************)
C17_EveryValidCandidateToSink ==
    /\ [](\A s \in Sessions :
            \A c \in 0..MaxCandidates : CreatedFor(s, c) <= 1)
    /\ [][\A s \in Sessions :
            LeavesCandidateLoop(s)
                => \A c \in 1..ncand[s] :
                      valid[s][c] => CreatedFor(s, c - 1) = 1]_vars

(***************************************************************************)
(* C18: a create_bill() failure is not propagated: the step publishes      *)
(* nothing (no BillDataSaved, no GeminiProcessingError), the loop moves to *)
(* the next candidate and the task stays on the path it takes when the     *)
(* record is accepted, so that process_with_gemini returns Ok only with    *)
(* every candidate handed to the sink; the file has exactly one            *)
(* BillDataSaved for each record the sink accepted.                        *)
(***************************************************************************)
C18_SinkFailureNotPropagated ==
    /\ [][\A s \in Sessions :
            /\ SinkFailureStep(s)
                  => /\ sent' = sent
                     /\ pc'[s] = "candidates"
                     /\ cand'[s] = cand[s] + 1
                     /\ file_index'[s] = file_index[s]
                     /\ successful_files'[s] = successful_files[s]
            /\ (LeavesCandidateLoop(s) /\ pc'[s] # "gemini_failed")
                  => Len(created[s]) = ncand[s]]_vars
    /\ [](\A s \in Sessions :
            pc[s] = "candidates"
                => CountFile(s, file_index[s], {"BillDataSaved"})
                       = SavedCount(s))

\* the sink refused the first record of a response and accepted the second
C18_Witness ==
    \E s \in Sessions :
        /\ pc[s] = "candidates"
        /\ Len(created[s]) = 2
        /\ ~created[s][1].saved
        /\ created[s][2].saved
        /\ CountFile(s, file_index[s], {"BillDataSaved"}) = 1

(***************************************************************************)
(* C19: a batch without `images` parts publishes a single ProcessingError  *)
(* and nothing else: no UploadStarted, no per-file event, and the task is  *)
(* over once the ProcessingError is out.                                   *)
(***************************************************************************)
C19_EmptyBatchOnlyError ==
    \A s \in Sessions :
        body[s].parts = 0
            => /\ Len(sent[s]) <= 1
               /\ Len(sent[s]) = 1
                     => sent[s][1].type = "ProcessingError" /\ pc[s] = "done"
               /\ TaskOver(s) => Len(sent[s]) = 1

\* the task of a readable body that has a field of another name and no
\* `images` part is over
C19_Witness ==
    \E s \in Sessions :
        /\ body[s].parts = 0 /\ body[s].other /\ ~body[s].broken
        /\ pc[s] = "done"
        /\ CountType(s, {"ProcessingError"}) = 1

(***************************************************************************)
(* C20: a batch with more `images` parts than max_image_count has none of  *)
(* its files validated or extracted.                                       *)
(***************************************************************************)
C20_CountLimitEnforced ==
    \A s \in Sessions :
        body[s].parts > max_image_count
            => CountType(s, {"ImageValidationStart"} \cup ValidationResults
                                \cup ExtractionEvents) = 0

(***************************************************************************)
(* Vocabulary of the extraction client's properties.                       *)
(***************************************************************************)
CallOver == client.step = "done"

RateLimited(r) == r.transport = "ok" /\ r.status = 429

Succeeds(r) == r.transport = "ok" /\ r.status = 200 /\ r.json

\* the answers the specification types AuthenticationFailed and ParseFailure
FailsFast(r) ==
    /\ r.transport = "ok"
    /\ r.status \in {401, 403} \/ (r.status = 200 /\ ~r.json)

\* the answer declares its retry delay, in the header or in the body
Declares(r) == r.declares # "nothing"

(***************************************************************************)
(* C21: a call makes at most max_attempts attempts, and every attempt      *)
(* after the first follows a failure typed RateLimit, ServiceUnavailable   *)
(* or Timeout.                                                             *)
(***************************************************************************)
C21_AtMostNAttempts ==
    /\ client.attempts <= max_attempts
    /\ \A k \in 2..client.attempts :
            client.errors[k - 1].kind
                \in {"RateLimit", "ServiceUnavailable", "Timeout"}

\* a call that used all its attempts, on a time-out, a 503 and a 429
C21_Witness ==
    /\ CallOver
    /\ client.attempts = max_attempts
    /\ client.script[1].transport = "timeout"
    /\ client.script[2].status = 503
    /\ client.script[3].status = 429
    /\ ~client.result.ok

C23_FailFast ==
    FailsFast(client.script[1]) =>
        /\ client.attempts <= 1
        /\ client.delays = <<>>
        /\ client.attempts = 1
              => /\ CallOver
                 /\ ~client.result.ok
                 /\ client.result = call_gemini_api(client.script[1])

\* a 403 ended the call although the second attempt would have succeeded
C23_Witness ==
    /\ CallOver
    /\ client.script[1].status = 403
    /\ Succeeds(client.script[2])
    /\ client.attempts = 1

(***************************************************************************)
(* C24: 401 and 403 are typed as one and the same failure, 429 is typed    *)
(* RateLimit and every 5xx is typed ServiceUnavailable.                    *)
(***************************************************************************)
C24_StatusClassification ==
    \A k \in 1..Len(client.errors) :
        LET r == client.script[k]
            e == client.errors[k]
        IN  r.transport = "ok" =>
              /\ r.status \in {401, 403}
                    => /\ e.kind = call_gemini_api([r EXCEPT !.status = 401]).kind
                       /\ e.kind = call_gemini_api([r EXCEPT !.status = 403]).kind
              /\ r.status = 429 => e.kind = "RateLimit"
              /\ r.status \in 500..599 => e.kind = "ServiceUnavailable"

(***************************************************************************)
(* C25: the delay before a retry is the delay the answer declared when it  *)
(* declared one; otherwise it is the doubled base delay and never more     *)
(* than max_delay_seconds.                                                 *)
(***************************************************************************)
C25_RetryDelay ==
    \A k \in 1..Len(client.delays) :
        IF Declares(client.script[k])
        THEN client.delays[k] = DeclaredSeconds
        ELSE /\ client.delays[k] <= max_delay_seconds
             /\ client.delays[k]
                    = Min(client.base * Pow2(k - 1), max_delay_seconds)

(***************************************************************************)
(* Vocabulary of the validator's properties.                               *)
(***************************************************************************)
CheckOver == validator.step = "done"

Oversized(data) == data.len > max_file_size_bytes

ImageMagic(data) == data.magic \in {"png", "jpeg"}

IsValid == validator.result.status = "Valid"

ErrorCode ==
    IF validator.result.status = "Invalid"
    THEN validator.result.error_code.code
    ELSE "none"

(***************************************************************************)
(* C26: a file longer than max_file_size_bytes is rejected with            *)
(* FileSizeExceeded carrying its real length and the limit, whatever its   *)
(* content, and nothing but the size check has run; a file of that length  *)
(* or less is never rejected for its size, and passes the size check.      *)
(***************************************************************************)
C26_SizeCheckedFirst ==
    /\ (CheckOver /\ Oversized(validator.data))
          => /\ validator.result.status = "Invalid"
             /\ validator.result.error_code
                   = [code |-> "FileSizeExceeded",
                      actual |-> validator.data.len,
                      limit |-> max_file_size_bytes]
             /\ validator.checks = <<"size">>
    /\ (CheckOver /\ ~Oversized(validator.data))
          => /\ ErrorCode # "FileSizeExceeded"
             /\ Len(validator.checks) >= 2
    /\ Len(validator.checks) >= 1 => validator.checks[1] = "size"

\* a file of exactly the limit was accepted, having passed all three checks
C26_Witness ==
    /\ CheckOver
    /\ validator.data.len = max_file_size_bytes
    /\ IsValid
    /\ validator.checks = <<"size", "sniff", "decode">>

(***************************************************************************)
(* C27: a file within the size limit whose magic bytes are an image's but  *)
(* which does not decode is rejected with CorruptedFile; one whose magic   *)
(* bytes are unknown or not an image's is rejected with UnsupportedFormat; *)
(* neither is ever Valid.                                                  *)
(***************************************************************************)
C27_CorruptedOrUnsupported ==
    (CheckOver /\ ~Oversized(validator.data)) =>
        /\ (ImageMagic(validator.data) /\ ~validator.data.decodes)
              => ~IsValid /\ ErrorCode = "CorruptedFile"
        /\ ~ImageMagic(validator.data)
              => ~IsValid /\ ErrorCode = "UnsupportedFormat"

(***************************************************************************)
(* C28: the bytes process_with_gemini is called with are the original      *)
(* bytes when the resize failed, and a re-encoded image shorter than the   *)
(* input when it succeeded; the resize itself publishes nothing, so the    *)
(* last event before GeminiProcessingStart is the file's                   *)
(* ImageValidationSuccess.                                                 *)
(***************************************************************************)
C28_OriginalOrSmaller ==
    \A s \in Sessions :
        pc[s] \in {"gemini_start", "gemini_call"} =>
            /\ resized_data[s].resize = "error"
                  => resized_data[s].bytes = "original"
            /\ resized_data[s].resize = "ok"
                  => resized_data[s].bytes = "shorter"
            /\ pc[s] = "gemini_start"
                  => /\ sent[s][Len(sent[s])].type = "ImageValidationSuccess"
                     /\ sent[s][Len(sent[s])].idx = file_index[s]

(***************************************************************************)
(* Vocabulary of the post-extraction validation's properties.              *)
(***************************************************************************)
AllPresent(b) == b.total_amount.some /\ b.tax_rate.some /\ b.tax_amount.some

\* a decimal of scale 2 or less in hundredths
Hundredths(d) == MantissaAt(d, 2)

\* |total * rate / 100 - amount| > 0.01, in integers: each side times 10^6
Mismatch(b) ==
    LET d == Hundredths(b.total_amount.v) * Hundredths(b.tax_rate.v)
                 - 10000 * Hundredths(b.tax_amount.v)
    IN  (IF d < 0 THEN 0 - d ELSE d) > 10000

(***************************************************************************)
(* C29: a record with validation findings never makes the extraction       *)
(* fail: it is returned with its findings as warnings and it is persisted  *)
(* when the pipeline is through with it.                                   *)
(***************************************************************************)
C29_FindingsAreWarnings ==
    /\ extractor.step # "failed"
    /\ extractor.returned
          => extractor.warnings = validate_extracted_data(extractor.bill)
    /\ extractor.step = "done" => extractor.persisted

(***************************************************************************)
(* C30: with total, rate and tax amount all present the response parser    *)
(* reports the cross-check finding exactly when                            *)
(* |total * rate / 100 - amount| > 0.01, and never when one of them is     *)
(* absent; BillData::validate_financial_data returns the cross-check       *)
(* finding only in that case and flags every record that is in it.         *)
(***************************************************************************)
C30_VatCrossCheck ==
    extractor.returned =>
        LET b == extractor.bill
            flagged == "tax_inconsistency" \in extractor.warnings
        IN  /\ AllPresent(b) => (flagged <=> Mismatch(b))
            /\ ~AllPresent(b) => ~flagged
            /\ extractor.financial = "vat_inconsistency"
                  => AllPresent(b) /\ Mismatch(b)
            /\ (AllPresent(b) /\ Mismatch(b)) => extractor.financial # "ok"

\* total 1000.00 at 10 percent with 100.02 declared: flagged, and for
\* nothing else
C30_Witness ==
    /\ extractor.returned
    /\ extractor.bill.total_amount = Some(Dec(100000, 2))
    /\ extractor.bill.tax_rate = Some(Dec(10, 0))
    /\ extractor.bill.tax_amount = Some(Dec(10002, 2))
    /\ extractor.warnings = {"tax_inconsistency"}
    /\ extractor.financial = "vat_inconsistency"

(***************************************************************************)
(* Vocabulary of the confidence scoring's properties.                      *)
(***************************************************************************)
ScoringOver == confidence.step = "done"

\* three times the critical scores, twice the important ones and once the
\* optional ones, and the weights of the eleven fields
WeightedSum(fs) ==
    3 * (fs["invoice_no"] + fs["company_name"] + fs["total_amount"])
    + 2 * (fs["issue_date"] + fs["tax_code"] + fs["tax_amount"])
    + (fs["form_no"] + fs["tax_rate"] + fs["notes"] + fs["buyer_name"]
       + fs["company_address"])

WeightSum == 3 * 3 + 2 * 3 + 5

(***************************************************************************)
(* C31: every per-field score and the overall score lie in [0,1] (0..100   *)
(* hundredths), and once all fields are scored the overall score is the    *)
(* average of the per-field scores weighted 3, 2 and 1.                    *)
(***************************************************************************)
C31_WeightedAverage ==
    /\ \A f \in DOMAIN confidence.field_scores :
          confidence.field_scores[f] \in 0..100
    /\ confidence.overall.num >= 0
    /\ confidence.overall.num <= 100 * confidence.overall.den
    /\ ScoringOver
          => /\ DOMAIN confidence.field_scores
                   = {ScoredFields[i] : i \in 1..Len(ScoredFields)}
             /\ confidence.overall.num * WeightSum
                   = confidence.overall.den
                        * WeightedSum(confidence.field_scores)

\* a record with scores on every level: 0, 0.3, 0.8, 0.9 and 0.95
C31_Witness ==
    /\ ScoringOver
    /\ confidence.field_scores["invoice_no"] = 90
    /\ confidence.field_scores["company_name"] = 0
    /\ confidence.field_scores["tax_code"] = 95
    /\ confidence.field_scores["tax_amount"] = 30
    /\ confidence.field_scores["notes"] = 80
    /\ confidence.overall.num > 0
    /\ confidence.overall.num < 100 * confidence.overall.den

(***************************************************************************)
(* Vocabulary of the amount parsers' properties.                           *)
(***************************************************************************)
\* the text the stated rule reads: with both separators the points are
\* dropped and the comma is the decimal point, with commas only the comma
\* is the decimal point, any other text is read as written
ByTheRule(t) ==
    IF Contains(t, ".") /\ Contains(t, ",")
    THEN ReplaceChar(RemoveChar(t, "."), ",", ".")
    ELSE IF Contains(t, ",") THEN ReplaceChar(t, ",", ".")
    ELSE t

SameAmount(a, b) ==
    /\ a.ok = b.ok
    /\ a.ok => MantissaAt(a, Max(a.e, b.e)) = MantissaAt(b, Max(a.e, b.e))

(***************************************************************************)
(* C32: each parser reads an amount text as the rule says: points as       *)
(* thousands separators and the comma as decimal separator when both       *)
(* occur, the comma as decimal separator when only commas occur, and the   *)
(* text as written otherwise.                                              *)
(***************************************************************************)
C32_AmountSeparators ==
    LET expected == DecimalFromStr(ByTheRule(Cleaned(amount.text)))
    IN  /\ amount.by_extractor => SameAmount(amount.parsed, expected)
        /\ amount.by_service => SameAmount(amount.field, expected)

(***************************************************************************)
(* Vocabulary of the date parser's properties.                             *)
(***************************************************************************)
DateRead == date.step = "done"

Ymd(y, mth, d) == [ok |-> TRUE, year |-> y, month |-> mth, day |-> d]

\* the formats that read the trimmed text
MatchingFormats(t) ==
    {i \in 1..FormatCount :
        ParseFromStr(TrimEnd(TrimStart(t)), FormatAt(i)).ok}

C34_DelayBetweenFiles ==
    [][\A s \in Sessions :
          file_index'[s] = file_index[s] + 1
             => (pc'[s] = "delay" <=> file_index'[s] < files[s])]_vars

(***************************************************************************)
(* C35: the task never panics in the resize step, and the size reduction   *)
(* is never computed for a re-encoded image longer than the input.         *)
(***************************************************************************)
C35_NoUnderflow ==
    \A s \in Sessions :
        /\ pc[s] # "panicked"
        /\ pc[s] \in {"gemini_start", "gemini_call"}
              => resized_data[s].bytes # "longer"

(***************************************************************************)
(* Vocabulary of the response object's properties.                         *)
(***************************************************************************)
RECURSIVE Total(_, _)
\* the sum of one field over a list of records
Total(rs, field) ==
    IF rs = <<>> THEN 0 ELSE rs[1][field] + Total(Tail(rs), field)

\* the errors of a response that carry an image index
IndexedErrors(r) ==
    Len(SelectSeq(r.errors, LAMBDA e : e.image_index # NoIndex))

(***************************************************************************)
(* C36: after any sequence of add_result and add_error calls on a          *)
(* response, successful_extractions is the number of results,              *)
(* failed_extractions is the number of added errors that carry an image    *)
(* index, total_processing_time_ms is the sum of the results' processing   *)
(* times, and average_confidence is the mean of the results' overall       *)
(* scores, None when there are no results.                                 *)
(***************************************************************************)
C36_SummaryFollowsCalls ==
    response.step = "building" =>
        LET r == response.value
            s == r.processing_summary
            avg == s.average_confidence
        IN  /\ s.successful_extractions = Len(r.results)
            /\ s.failed_extractions = IndexedErrors(r)
            /\ s.total_processing_time_ms
                   = Total(r.results, "processing_time_ms")
            /\ IF r.results = <<>>
               THEN ~avg.some
               ELSE /\ avg.some
                    /\ avg.len > 0
                    /\ avg.sum * Len(r.results)
                           = Total(r.results, "overall") * avg.len

\* two results of 0.45 and 0.90, one error with an image index and one
\* without: two successes, one failure, an average of 1.35 / 2
C36_Witness ==
    /\ response.step = "building"
    /\ Len(response.value.results) = 2
    /\ response.value.results[1].overall = 45
    /\ response.value.results[2].overall = 90
    /\ Len(response.value.errors) = 2
    /\ IndexedErrors(response.value) = 1
    /\ response.value.processing_summary.successful_extractions = 2
    /\ response.value.processing_summary.failed_extractions = 1
    /\ response.value.processing_summary.average_confidence
           = [some |-> TRUE, sum |-> 135, len |-> 2]

(***************************************************************************)
(* C37: parse_gemini_response for one image never reports more             *)
(* extractions than images: successful_extractions + failed_extractions    *)
(* is at most 1 in the response it returns, so a validation warning        *)
(* attached to a successfully extracted record does not increase           *)
(* failed_extractions.                                                     *)
(***************************************************************************)
C37_AtMostOneExtraction ==
    (response.step = "parsed" /\ response.ok)
        => LET s == response.value.processing_summary
           IN  s.successful_extractions + s.failed_extractions <= 1

(***************************************************************************)
(* Vocabulary of the properties of process_images.                         *)
(***************************************************************************)
BatchReturned == response.step = "returned"

\* a request GeminiOCRRequest::validate accepts
ValidRequest(request) ==
    /\ Len(request.images) \in 1..max_images
    /\ \A i \in 1..Len(request.images) : request.images[i] = "image"
    /\ request.options_valid

\* the results and the indexed errors of a response that are about image i
OutcomesOf(r, i) ==
    Len(SelectSeq(r.results, LAMBDA x : x.image_index = i))
        + Len(SelectSeq(r.errors, LAMBDA e : e.image_index = i))

(***************************************************************************)
(* C38: process_images rejects a request with zero images with an error    *)
(* before any call for an image; for a valid request it processes the      *)
(* images one at a time in request order, continues after a failed image,  *)
(* and returns Ok with exactly one result or one indexed error per image:  *)
(* results + indexed errors = number of images.                            *)
(***************************************************************************)
C38_OneOutcomePerImage ==
    response.step \in {"validate", "loop", "returned"} =>
        LET request == response.request
            n == Len(request.images)
            r == response.value
        IN  /\ response.calls = [i \in 1..Len(response.calls) |-> i - 1]
            /\ n = 0 => response.calls = <<>>
            /\ (BatchReturned /\ n = 0) => response.ok = "Err"
            /\ (BatchReturned /\ ValidRequest(request))
                   => /\ response.ok = "Ok"
                      /\ Len(response.calls) = n
                      /\ Len(r.results) + IndexedErrors(r) = n
                      /\ \A i \in 0..(n - 1) : OutcomesOf(r, i) = 1

\* three images, the first failed and the two after it extracted
C38_Witness ==
    /\ BatchReturned
    /\ response.ok = "Ok"
    /\ Len(response.request.images) = 3
    /\ response.calls = <<0, 1, 2>>
    /\ Len(response.value.errors) = 1
    /\ response.value.errors[1].image_index = 0
    /\ Len(response.value.results) = 2
    /\ response.value.results[1].image_index = 1
    /\ response.value.results[2].image_index = 2

====
